---- MODULE Spec2Model ----
(***************************************************************************)
(* Ozon FBO postings service: the pagination pipeline of                   *)
(* OzonService.stream_postings and the normalizer                          *)
(* EmbeddedDataTransformer.transform_single_posting.                       *)
(*                                                                         *)
(* Upstream JSON is untyped, so every JSON value is a tagged record        *)
(* [t |-> tag, v |-> payload] with tag in                                  *)
(*   "null", "int", "str", "dict", "list".                                 *)
(* A dict payload is a function from key strings to JSON values, a list    *)
(* payload is a sequence of JSON values.  Python floats are fixed-point    *)
(* integers counted in 1/Milli units (100.50 is 100500), which is exact    *)
(* for every price of the input universe (at most two decimals).           *)
(***************************************************************************)
EXTENDS Integers, Sequences, FiniteSets, TLC

VARIABLES
    pc,           \* position of the stream_postings generator
    session,      \* OzonService.session: "none" | "open" | "closed"
    offset,       \* local offset of stream_postings
    batch_count,  \* OzonService.batch_count
    total_items,  \* OzonService.total_items
    inflight,     \* upstream requests issued and not yet answered
    listCalls,    \* offsets of the list calls issued so far, in order
    outcomes,     \* what upstream answered to each list call, in order
    rawSizes,     \* len(raw_postings) of every interpreted page, in order
    sleeps,       \* every asyncio.sleep of the run, in order (milliseconds)
    raw_postings, \* the page being processed
    embedded_batch, \* the batch built from the page (the yielded value)
    yieldSizes,   \* sizes of the batches yielded so far, in order
    raised,       \* the exception that left stream_postings, or "none"
    posting_data, \* normalizer harness: the raw input
    normalized,   \* normalizer harness: the outcome of the call
    rpc,          \* position of HTTPClient.request
    client_session, \* HTTPClient.session: "none" | "open"
    max_retries,  \* argument of HTTPClient.request
    attempt,      \* loop variable of HTTPClient.request
    httpCalls,    \* number of HTTP calls HTTPClient.request has issued
    answers,      \* what the network answered to each call, in order
    reqSleeps,    \* every asyncio.sleep of the request, in order (seconds)
    reqResult,    \* how HTTPClient.request ended
    ppc,          \* position of _process_batch
    posting_batch, \* argument of _process_batch: the stubs of one page
    detail_pat,   \* what upstream answers to the detail call of each stub
    chunk_start,  \* loop variable i of _process_batch
    pending,      \* stubs whose detail fetch is in flight
    started,      \* stubs whose detail fetch was started
    embedded_postings, \* local embedded_postings of _process_batch
    procSleeps,   \* the sleeps of _process_batch itself, in order (ms)
    procResult,   \* how _process_batch ended
    hpc,          \* position of the handler get_fbo_postings
    request,      \* the request: headers and period
    all_postings, \* local all_postings of the handler
    total_postings, \* local total_postings of the handler
    reply,        \* the response of the handler
    runs,         \* concurrent invocations: the locals of each run
    service_of,   \* concurrent invocations: the service of each run
    services,     \* the OzonService instances: their attributes
    error_handler, \* an ErrorHandler: errors, warnings, timeout_errors,
                  \* retry_counts
    retry_log,    \* per key: the should_retry calls since its last reset
    opCount,      \* number of ErrorHandler operations called so far
    lastOp,       \* the last ErrorHandler operation and what it returned
    list_response, \* list harness: the JSON body of a 200 list response
    list_batch    \* list harness: what _get_postings_batch made of it

vars == <<pc, session, offset, batch_count, total_items, inflight, listCalls,
          outcomes, rawSizes, sleeps, raw_postings, embedded_batch,
          yieldSizes, raised, posting_data, normalized,
          rpc, client_session, max_retries, attempt, httpCalls, answers,
          reqSleeps, reqResult,
          ppc, posting_batch, detail_pat, chunk_start, pending, started,
          embedded_postings, procSleeps, procResult,
          hpc, request, all_postings, total_postings, reply,
          runs, service_of, services,
          error_handler, retry_log, opCount, lastOp,
          list_response, list_batch>>

pipeVars == <<pc, session, offset, batch_count, total_items, inflight,
              listCalls, outcomes, rawSizes, sleeps, raw_postings,
              embedded_batch, yieldSizes, raised>>

normVars == <<posting_data, normalized>>

reqVars == <<rpc, client_session, max_retries, attempt, httpCalls, answers,
             reqSleeps, reqResult>>

procVars == <<ppc, posting_batch, detail_pat, chunk_start, pending, started,
              embedded_postings, procSleeps, procResult>>

handlerVars == <<hpc, request, all_postings, total_postings, reply>>

runsVars == <<runs, service_of, services>>

errVars == <<error_handler, retry_log, opCount, lastOp>>

listVars == <<list_response, list_batch>>

\* what the actions of one component leave alone
besidesStream == <<normVars, reqVars, procVars, handlerVars, runsVars,
                   errVars, listVars>>
besidesNorm == <<pipeVars, reqVars, procVars, handlerVars, runsVars,
                 errVars, listVars>>
besidesReq == <<pipeVars, normVars, procVars, handlerVars, runsVars,
                errVars, listVars>>
besidesProc == <<pipeVars, normVars, reqVars, handlerVars, runsVars,
                 errVars, listVars>>
besidesHandler == <<normVars, reqVars, procVars, runsVars,
                    errVars, listVars>>
besidesRuns == <<pipeVars, normVars, reqVars, procVars, handlerVars,
                 errVars, listVars>>
besidesErr == <<pipeVars, normVars, reqVars, procVars, handlerVars,
                runsVars, listVars>>

besidesList == <<pipeVars, normVars, reqVars, procVars, handlerVars,
                 runsVars, errVars>>

----------------------------------------------------------------------------
(* JSON values and the Python operations the code applies to them          *)

Null == [t |-> "null"]
JInt(n) == [t |-> "int", v |-> n]
JStr(s) == [t |-> "str", v |-> s]
JDict(d) == [t |-> "dict", v |-> d]
JList(l) == [t |-> "list", v |-> l]
EmptyDict == JDict(<<>>)
EmptyList == JList(<<>>)

\* fixed-point unit of a Python float
Milli == 1000

\* bool(x)
Truthy(x) ==
    CASE x.t = "null" -> FALSE
      [] x.t = "int"  -> x.v # 0
      [] x.t = "str"  -> x.v # ""
      [] x.t = "dict" -> DOMAIN x.v # {}
      [] x.t = "list" -> Len(x.v) > 0

\* str(x)
PyStr(x) ==
    CASE x.t = "null" -> "None"
      [] x.t = "int"  -> ToString(x.v)
      [] x.t = "str"  -> x.v
      [] x.t = "dict" -> IF DOMAIN x.v = {} THEN "{}" ELSE "{...}"
      [] x.t = "list" -> IF Len(x.v) = 0 THEN "[]" ELSE "[...]"

\* `key in x`: "yes", "no", or "TypeError" when x is not a container
\* (x is never a str here: no str reaches the normalizer as a whole record)
PyIn(key, x) ==
    CASE x.t = "dict" -> IF key \in DOMAIN x.v THEN "yes" ELSE "no"
      [] x.t = "list" -> IF \E i \in 1..Len(x.v) :
                               x.v[i].t = "str" /\ x.v[i].v = key
                         THEN "yes" ELSE "no"
      [] x.t \in {"null", "int"} -> "TypeError"

\* d.get(key, default) on a dict payload
Get(d, key, default) == IF key \in DOMAIN d THEN d[key] ELSE default

\* pydantic field checks
IsStr(x) == x.t = "str"
IsOptStr(x) == x.t = "str" \/ x.t = "null"
IsOptInt(x) == x.t = "int" \/ x.t = "null"

----------------------------------------------------------------------------
(* _safe_float: text to float                                              *)

\* the characters of the strings that reach _safe_float
CharsOf(s) ==
    CASE s = "0"        -> <<"0">>
      [] s = "50"       -> <<"5", "0">>
      [] s = "100,50"   -> <<"1", "0", "0", ",", "5", "0">>
      [] s = "100.50"   -> <<"1", "0", "0", ".", "5", "0">>
      [] s = " 1 000,5 " -> <<" ", "1", " ", "0", "0", "0", ",", "5", " ">>
      [] s = "-3,25"    -> <<"-", "3", ",", "2", "5">>
      [] s = "1,000,50" -> <<"1", ",", "0", "0", "0", ",", "5", "0">>
      [] s = "abc"      -> <<"a", "b", "c">>
      [] s = ""         -> <<>>
      [] s = "A"        -> <<"A">>
      [] s = "2"        -> <<"2">>

Digits == {"0", "1", "2", "3", "4", "5", "6", "7", "8", "9"}

DigitVal(c) ==
    CASE c = "0" -> 0 [] c = "1" -> 1 [] c = "2" -> 2 [] c = "3" -> 3
      [] c = "4" -> 4 [] c = "5" -> 5 [] c = "6" -> 6 [] c = "7" -> 7
      [] c = "8" -> 8 [] c = "9" -> 9

\* value.strip().replace(' ', '').replace(',', '.')
Cleaned(cs) ==
    LET noSpace == SelectSeq(cs, LAMBDA c : c # " ")
    IN  [i \in 1..Len(noSpace) |->
            IF noSpace[i] = "," THEN "." ELSE noSpace[i]]

RECURSIVE DigitsValue(_)
\* the number written by a sequence of digits
DigitsValue(ds) ==
    IF Len(ds) = 0 THEN 0
    ELSE 10 * DigitsValue(SubSeq(ds, 1, Len(ds) - 1)) + DigitVal(ds[Len(ds)])

RECURSIVE Pow10(_)
Pow10(n) == IF n = 0 THEN 1 ELSE 10 * Pow10(n - 1)

\* float(text): [ok, val]; ok = FALSE is ValueError
PyFloat(cs) ==
    LET signed == Len(cs) > 0 /\ cs[1] \in {"-", "+"}
        body   == IF signed THEN SubSeq(cs, 2, Len(cs)) ELSE cs
        dots   == {i \in 1..Len(body) : body[i] = "."}
        dot    == IF dots = {} THEN Len(body) + 1 ELSE CHOOSE i \in dots : TRUE
        whole  == SubSeq(body, 1, dot - 1)
        frac   == SubSeq(body, dot + 1, Len(body))
        wellFormed ==
            /\ Cardinality(dots) <= 1
            /\ \A i \in 1..Len(whole) : whole[i] \in Digits
            /\ \A i \in 1..Len(frac) : frac[i] \in Digits
            /\ Len(whole) + Len(frac) > 0
        \* fractional digits beyond the third are below the unit
        frac3  == SubSeq(frac, 1, IF Len(frac) < 3 THEN Len(frac) ELSE 3)
        abs    == DigitsValue(whole) * Milli
                    + DigitsValue(frac3) * Pow10(3 - Len(frac3))
    IN  IF wellFormed
        THEN [ok |-> TRUE, val |-> IF signed /\ cs[1] = "-" THEN 0 - abs ELSE abs]
        ELSE [ok |-> FALSE, val |-> 0]

_safe_float(value) ==
    CASE value.t = "int" -> value.v * Milli
      [] value.t = "str" ->
            LET cleaned == Cleaned(CharsOf(value.v))
            IN  IF Len(cleaned) = 0 THEN 0
                ELSE IF PyFloat(cleaned).ok THEN PyFloat(cleaned).val ELSE 0
      [] OTHER -> 0

----------------------------------------------------------------------------
(* EmbeddedDataTransformer.  An operator that can raise returns            *)
(* [exc |-> "none" | exception name, val |-> result].  Cyrillic text of    *)
(* the source (status labels, field names) is transliterated.              *)

status_map ==
    "awaiting_registration"  :> "Ozhidaet registracii" @@
    "acceptance_in_progress" :> "Priemka v processe" @@
    "awaiting_approve"       :> "Ozhidaet podtverzhdeniya" @@
    "awaiting_packaging"     :> "Ozhidaet upakovki" @@
    "awaiting_deliver"       :> "Ozhidaet otgruzki" @@
    "delivering"             :> "Dostavlyaetsya" @@
    "driver_pickup"          :> "Voditel zabral" @@
    "delivered"              :> "Dostavleno" @@
    "cancelled"              :> "Otmeneno" @@
    "arbitration"            :> "Arbitrazh"

\* status_map.get(status, status); an unhashable key is a TypeError
_translate_status(status) ==
    CASE status.t \in {"dict", "list"} -> [exc |-> "TypeError", val |-> Null]
      [] status.t = "str" /\ status.v \in DOMAIN status_map ->
            [exc |-> "none", val |-> JStr(status_map[status.v])]
      [] OTHER -> [exc |-> "none", val |-> status]

_to_iso_string(date_value) ==
    IF ~Truthy(date_value) THEN Null
    ELSE IF date_value.t = "str" THEN date_value
    ELSE JStr(PyStr(date_value))

\* int(x) of the sku: [ok, val]
PyInt(x) ==
    CASE x.t = "int" -> [ok |-> TRUE, val |-> x.v]
      [] x.t = "str" ->
            LET cs == SelectSeq(CharsOf(x.v), LAMBDA c : c # " ")
                signed == Len(cs) > 0 /\ cs[1] \in {"-", "+"}
                body == IF signed THEN SubSeq(cs, 2, Len(cs)) ELSE cs
            IN  IF Len(body) > 0 /\ \A i \in 1..Len(body) : body[i] \in Digits
                THEN [ok |-> TRUE,
                      val |-> IF signed /\ cs[1] = "-"
                              THEN 0 - DigitsValue(body) ELSE DigitsValue(body)]
                ELSE [ok |-> FALSE, val |-> 0]
      [] OTHER -> [ok |-> FALSE, val |-> 0]

\* the line number given to the product at 1-based position idx
LineNumber(idx) == idx

\* one pass of the loop body of _extract_product_items_simple:
\* [ok |-> an item was appended, item |-> the ProductItem]
ProductItem(product, idx, posting_number) ==
    LET noItem == [ok |-> FALSE, item |-> Null]
    IN
    IF product.t # "dict" THEN noItem                \* product.get: AttributeError
    ELSE
    LET p        == product.v
        quantity == Get(p, "quantity", JInt(0))
        price    == _safe_float(Get(p, "price", JStr("0")))
        skuRaw   == Get(p, "sku", Null)
        sku      == IF Truthy(skuRaw) THEN PyInt(skuRaw) ELSE [ok |-> TRUE, val |-> 0]
        name     == Get(p, "name", JStr("Tovar " \o ToString(idx)))
        offer_id == Get(p, "offer_id", Null)
        currency_code == Get(p, "currency_code", JStr("RUB"))
    IN
    IF quantity.t # "int" THEN noItem                \* quantity <= 0: TypeError
    ELSE IF quantity.v <= 0 THEN noItem              \* continue
    ELSE IF ~sku.ok THEN noItem                      \* int(...): ValueError
    ELSE IF ~(IsStr(name) /\ IsOptStr(offer_id) /\ IsStr(currency_code))
         THEN noItem                                 \* pydantic ValidationError
    ELSE [ok |-> TRUE,
          item |-> [line_number |-> LineNumber(idx),
                    sku |-> sku.val,
                    name |-> name.v,
                    quantity |-> quantity.v,
                    price |-> price,
                    total |-> price * quantity.v,
                    posting_number |-> posting_number,
                    offer_id |-> offer_id,
                    currency_code |-> currency_code.v]]

RECURSIVE ProductItemsUpTo(_, _, _)
\* product_items after the first n passes of the loop
ProductItemsUpTo(products, n, posting_number) ==
    IF n = 0 THEN <<>>
    ELSE LET r == ProductItem(products[n], n, posting_number)
             before == ProductItemsUpTo(products, n - 1, posting_number)
         IN  IF r.ok THEN Append(before, r.item) ELSE before

\* the sequence a Python for loop walks: a dict yields its keys
Iterated(x) ==
    CASE x.t = "list" -> x.v
      [] x.t = "dict" ->
            LET keys == DOMAIN x.v
                RECURSIVE seqOf(_)
                seqOf(S) == IF S = {} THEN <<>>
                            ELSE LET k == CHOOSE k \in S : TRUE
                                 IN  <<JStr(k)>> \o seqOf(S \ {k})
            IN  seqOf(keys)
      [] x.t = "str" ->
            [i \in 1..Len(CharsOf(x.v)) |-> JStr(CharsOf(x.v)[i])]

_extract_product_items_simple(pd) ==
    LET products == Get(pd, "products", EmptyList)
        posting_number == PyStr(Get(pd, "posting_number", JStr("")))
    IN  IF products.t \notin {"list", "dict", "str"}
        THEN [exc |-> "TypeError", val |-> <<>>]     \* not iterable
        ELSE [exc |-> "none",
              val |-> ProductItemsUpTo(Iterated(products),
                                       Len(Iterated(products)), posting_number)]

\* what one product adds to total_products: [ok, val]; ok = FALSE raises
FinancialTerm(product) ==
    IF product.t # "dict" THEN [ok |-> FALSE, val |-> 0]
    ELSE LET quantity == Get(product.v, "quantity", JInt(0))
             price == _safe_float(Get(product.v, "price", JStr("0")))
         IN  IF quantity.t # "int" THEN [ok |-> FALSE, val |-> 0]
             ELSE [ok |-> TRUE, val |-> price * quantity.v]

RECURSIVE FinancialLoop(_, _)
\* total_products after the first n products: [ok, val]; once a product
\* raises, the total reached so far is kept and ok stays FALSE
FinancialLoop(products, n) ==
    IF n = 0 THEN [ok |-> TRUE, val |-> 0]
    ELSE LET before == FinancialLoop(products, n - 1)
             term == FinancialTerm(products[n])
         IN  IF ~before.ok THEN before
             ELSE IF ~term.ok THEN [ok |-> FALSE, val |-> before.val]
             ELSE [ok |-> TRUE, val |-> before.val + term.val]

_extract_financial_data_simple(pd) ==
    LET products == Get(pd, "products", EmptyList)
        zero == [total_products |-> 0, total_commission |-> 0, total_payout |-> 0]
    IN  IF products.t \notin {"list", "dict", "str"} THEN zero
        ELSE LET loop == FinancialLoop(Iterated(products), Len(Iterated(products)))
             IN  IF ~loop.ok
                 THEN [zero EXCEPT !.total_products = loop.val]
                 ELSE [total_products |-> loop.val,
                       total_payout |-> (loop.val * 9) \div 10,
                       total_commission |-> loop.val \div 10]

PyOr(a, b) == IF Truthy(a) THEN a ELSE b

_extract_customer_data_simple(pd) ==
    LET customer == Get(pd, "customer", EmptyDict)
        addressee == Get(pd, "addressee", EmptyDict)
    IN  IF customer.t # "dict" \/ addressee.t # "dict"
        THEN [exc |-> "AttributeError", val |-> Null]
        ELSE [exc |-> "none",
              val |-> [name |-> PyOr(Get(customer.v, "name", Null),
                                     Get(addressee.v, "name", Null)),
                       phone |-> PyOr(Get(customer.v, "phone", Null),
                                      Get(addressee.v, "phone", Null)),
                       email |-> Get(customer.v, "email", Null),
                       address |-> Get(customer.v, "address", JStr("")),
                       delivery_address |-> Get(addressee.v, "address", JStr(""))]]

_extract_delivery_data_simple(pd) ==
    LET delivery_method == Get(pd, "delivery_method", EmptyDict)
        addressee == Get(pd, "addressee", EmptyDict)
        warehouse == Get(pd, "warehouse", EmptyDict)
    IN  IF delivery_method.t # "dict" \/ addressee.t # "dict" \/ warehouse.t # "dict"
        THEN [exc |-> "AttributeError", val |-> Null]
        ELSE
        LET d == [method |-> Get(delivery_method.v, "name", Null),
                  tracking_number |-> Get(pd, "tracking_number", Null),
                  warehouse |-> Get(warehouse.v, "name", Null),
                  delivery_date |-> _to_iso_string(Get(pd, "delivery_date", Null)),
                  address |-> Get(addressee.v, "address", JStr("")),
                  tpl_provider |-> Get(delivery_method.v, "tpl_provider", Null)]
        IN  IF \A f \in DOMAIN d : IsOptStr(d[f])
            THEN [exc |-> "none", val |-> d]
            ELSE [exc |-> "ValidationError", val |-> Null]

_extract_analytics_data_simple(pd) ==
    LET analytics == Get(pd, "analytics_data", EmptyDict)
    IN  IF analytics.t # "dict"
        THEN [exc |-> "AttributeError", val |-> Null]
        ELSE
        LET a == [warehouse_name |-> Get(analytics.v, "warehouse_name", Null),
                  region |-> Get(analytics.v, "region", Null),
                  city |-> Get(analytics.v, "city", Null),
                  delivery_type |-> Get(analytics.v, "delivery_type", Null),
                  warehouse_id |-> Get(analytics.v, "warehouse_id", Null),
                  tpl_provider |-> Get(analytics.v, "tpl_provider", Null)]
        IN  IF /\ \A f \in DOMAIN a \ {"warehouse_id"} : IsOptStr(a[f])
               /\ IsOptInt(a.warehouse_id)
            THEN [exc |-> "none", val |-> a]
            ELSE [exc |-> "ValidationError", val |-> Null]

\* a plausible slip: the order id accepted as an identity
possible_keys_order == <<"posting_number", "postingNumber", "posting", "order_id">>

possible_keys == <<"posting_number", "postingNumber", "posting">>

\* the try block of transform_single_posting: EmbeddedPosting(...) or, on
\* any exception of a builder or of the pydantic validation, None
EmbeddedPosting(pd, posting_number) ==
    LET order_id     == Get(pd, "order_id", Null)
        order_number == IF Truthy(order_id) THEN JStr(PyStr(order_id)) ELSE Null
        status       == Get(pd, "status", JStr(""))
        status_ru    == _translate_status(status)
        created_at   == _to_iso_string(Get(pd, "created_at", Null))
        in_process_at == _to_iso_string(Get(pd, "in_process_at", Null))
        tovary       == _extract_product_items_simple(pd)
        finansy      == _extract_financial_data_simple(pd)
        analitika    == _extract_analytics_data_simple(pd)
        dostavka     == _extract_delivery_data_simple(pd)
        klient       == _extract_customer_data_simple(pd)
        built ==
            /\ status_ru.exc = "none"
            /\ tovary.exc = "none"
            /\ analitika.exc = "none"
            /\ dostavka.exc = "none"
            /\ klient.exc = "none"
        valid ==
            /\ IsStr(status)
            /\ IsStr(status_ru.val)
            /\ IsStr(created_at)          \* created_at: str is required
    IN  IF built /\ valid
        THEN [t |-> "posting",
              posting_number |-> posting_number,
              order_number |-> order_number,
              status |-> status.v,
              status_ru |-> status_ru.val.v,
              created_at |-> created_at.v,
              in_process_at |-> in_process_at,
              tovary |-> tovary.val,
              finansy |-> finansy,
              analitika |-> analitika.val,
              dostavka |-> dostavka.val,
              klient |-> klient.val]
        ELSE Null

\* [exc |-> "none" | the exception that leaves the call,
\*  val |-> Null (None) or the EmbeddedPosting]
transform_single_posting(raw) ==
    LET Raise(e) == [exc |-> e, val |-> Null]
        Return(x) == [exc |-> "none", val |-> x]
        wrapped == PyIn("result", raw)
    IN
    IF wrapped = "TypeError" THEN Raise("TypeError")
    ELSE IF wrapped = "yes" /\ raw.t = "list" THEN Raise("TypeError")
    ELSE
    LET pd == IF wrapped = "yes" THEN raw.v["result"] ELSE raw
    IN
    IF ~Truthy(pd) THEN Return(Null)
    ELSE IF PyIn(possible_keys[1], pd) = "TypeError" THEN Raise("TypeError")
    ELSE
    LET found == {i \in 1..Len(possible_keys) : PyIn(possible_keys[i], pd) = "yes"}
        first == CHOOSE i \in found : \A j \in found : i <= j
    IN
    IF found # {} /\ pd.t = "list" THEN Raise("TypeError")   \* pd[key] on a list
    ELSE
    LET posting_number == IF found = {} THEN ""
                          ELSE PyStr(pd.v[possible_keys[first]])
    IN
    IF posting_number = ""
    THEN IF pd.t = "dict" THEN Return(Null)
         ELSE Raise("AttributeError")                        \* pd.keys() in the log line
    ELSE Return(EmbeddedPosting(pd.v, posting_number))

----------------------------------------------------------------------------
(* Upstream: what the marketplace may answer                                *)

limit == 1000

\* bounds of the explored runs
MaxPages == 4       \* list calls of one run
MaxShort == 2       \* length of the enumerated short pages
MaxProducts == 2    \* length of the enumerated products sequences

GoodProduct ==
    JDict("sku" :> JInt(1) @@ "name" :> JStr("A") @@ "quantity" :> JInt(2)
          @@ "price" :> JStr("100,50"))

ProductPool ==
    { GoodProduct,
      JDict("sku" :> JInt(2) @@ "name" :> JStr("A") @@ "quantity" :> JInt(0)
            @@ "price" :> JStr("50")),
      JDict("sku" :> JInt(3) @@ "name" :> JStr("A") @@ "quantity" :> JInt(0 - 1)
            @@ "price" :> JInt(50)),
      JDict("sku" :> JStr("2") @@ "name" :> JStr("A") @@ "quantity" :> JInt(3)
            @@ "price" :> JStr(" 1 000,5 ")),
      JDict("name" :> JStr("A") @@ "quantity" :> JStr("2")
            @@ "price" :> JStr("100.50")),
      JDict("sku" :> JInt(4) @@ "quantity" :> JInt(1) @@ "price" :> JStr("abc")),
      JDict("sku" :> JInt(5) @@ "name" :> JStr("A") @@ "quantity" :> JStr("abc")
            @@ "price" :> JStr("10")),
      Null }

RECURSIVE SeqsUpTo(_, _)
\* the sequences over S of length at most n
SeqsUpTo(S, n) ==
    IF n = 0 THEN {<<>>}
    ELSE LET shorter == SeqsUpTo(S, n - 1)
         IN  shorter \cup {Append(q, x) : q \in shorter, x \in S}

\* a detail record as upstream sends it when nothing is missing
GoodRecord(pn, products) ==
    JDict("posting_number" :> JStr(pn) @@ "order_id" :> JInt(77)
          @@ "status" :> JStr("delivered")
          @@ "created_at" :> JStr("2024-01-01T00:00:00Z")
          @@ "products" :> JList(products))

StubOnly(pn) == JDict("posting_number" :> JStr(pn))

\* the record of the end-to-end scenario
RecordX1 ==
    JDict("posting_number" :> JStr("X-1") @@ "status" :> JStr("delivered")
          @@ "products" :> JList(<<GoodProduct>>))

\* d without key k
Without(d, k) == [x \in DOMAIN d \ {k} |-> d[x]]

\* inputs of the normalizer
RawInputs ==
    LET full == {GoodRecord("X-1", ps).v : ps \in SeqsUpTo(ProductPool, MaxProducts)}
        identities ==
            { "posting_number" :> JStr("X-1"),
              "postingNumber" :> JStr("X-2"),
              "posting" :> JInt(3),
              "posting_number" :> JStr("") @@ "postingNumber" :> JStr("X-2"),
              "posting_number" :> JStr("") @@ "posting" :> JStr("X-3"),
              "posting_number" :> JStr(""),
              "posting_number" :> Null,
              "posting_number" :> Null @@ "postingNumber" :> JStr("X-2"),
              <<>> }
        sections ==
            { "analytics_data" :> Null,
              "analytics_data" :> JStr("x"),
              "analytics_data" :> JDict("region" :> JStr("R")),
              "customer" :> Null,
              "customer" :> JDict("name" :> JStr("N")),
              "delivery_method" :> JStr("x"),
              "delivery_method" :> JDict("name" :> JStr("M")),
              "analytics_data" :> JDict("region" :> JStr("R")) @@ "customer" :> Null }
        timestamps ==
            { "created_at" :> Null,
              "created_at" :> JStr(""),
              "created_at" :> JStr("garbage"),
              "in_process_at" :> JStr("garbage"),
              "in_process_at" :> JStr("2024-01-02T00:00:00Z") }
        dicts ==
            {JDict(Without(r, "posting_number") @@ id) : r \in full, id \in identities}
            \cup {JDict(Without(r, "created_at")) : r \in full}
            \cup {JDict(sec @@ r) : r \in full, sec \in sections}
            \cup {JDict(ts @@ r) : r \in full, ts \in timestamps}
            \cup {JDict(r @@ "products" :> Null) : r \in full}
            \cup {RecordX1, EmptyDict, StubOnly("X-1"),
                  JDict("status" :> JStr("cancelled"))}
        odd == {Null, JInt(5), EmptyList, JList(<<JStr("posting")>>),
                JList(<<JStr("x")>>)}
    IN  dicts \cup {JDict("result" :> d) : d \in dicts \cup odd}
              \cup {Null, EmptyList, JList(<<JStr("result")>>)}

StubKinds == {"good", "stub", "noid", "null"}

\* the i-th stub of a page, by kind
Stub(kind, i) ==
    CASE kind = "good" -> GoodRecord("P-" \o ToString(i), <<GoodProduct>>)
      [] kind = "stub" -> StubOnly("P-" \o ToString(i))
      [] kind = "x1"   -> StubOnly("X-1")
      [] kind = "noid" -> JDict("status" :> JStr("delivered")
                                @@ "created_at" :> JStr("2024-01-01T00:00:00Z"))
      [] kind = "null" -> Null

\* a page of n stubs whose kinds repeat the pattern pat
Page(n, pat) == [i \in 1..n |-> Stub(pat[((i - 1) % Len(pat)) + 1], i)]

\* the pages upstream may hold: [n |-> size, pat |-> kinds]
PageDescs ==
    {[n |-> limit, pat |-> <<k>>] : k \in {"good", "stub"}}
    \cup {[n |-> 340, pat |-> <<"good">>], [n |-> 1, pat |-> <<"x1">>]}
    \cup {[n |-> Len(q), pat |-> q] : q \in SeqsUpTo(StubKinds, MaxShort) \ {<<>>}}
    \cup {[n |-> 0, pat |-> <<"good">>]}

\* the JSON shapes of a 200 list response
Shapes == {"result.postings", "result_list", "top_postings", "error",
           "result_other", "postings_null", "unexpected"}

\* the body of a 200 response: of a list call, or of the detail call for
\* the last stub of page
Body(shape, page) ==
    CASE shape = "result.postings" ->
            JDict("result" :> JDict("postings" :> JList(page)
                                    @@ "count" :> JInt(Len(page))))
      [] shape = "result_list"  -> JDict("result" :> JList(page))
      [] shape = "top_postings" -> JDict("postings" :> JList(page))
      [] shape = "error" ->
            JDict("error" :> JStr("bad request")
                  @@ "result" :> JDict("postings" :> JList(page)))
      [] shape = "result_other" ->
            JDict("result" :> JStr("abc") @@ "postings" :> JList(page))
      [] shape = "postings_null" -> JDict("result" :> JDict("postings" :> Null))
      [] shape = "unexpected"   -> JDict("unexpected" :> JStr("shape"))
      [] shape = "detail"       -> JDict("result" :> page[Len(page)])
      [] shape = "detail_empty" -> EmptyDict

\* what upstream may answer to one list call
Outcomes ==
    {[kind |-> "ok", status |-> 200, shape |-> "result.postings",
      n |-> d.n, pat |-> d.pat] : d \in PageDescs}
    \cup {[kind |-> "ok", status |-> 200, shape |-> sh, n |-> d.n, pat |-> d.pat] :
            sh \in Shapes \ {"result.postings"},
            d \in {x \in PageDescs : x.n = 1}}
    \cup {[kind |-> "status", status |-> st, shape |-> "", n |-> 0, pat |-> <<>>] :
            st \in {429, 500, 404}}
    \cup {[kind |-> k, status |-> 0, shape |-> "", n |-> 0, pat |-> <<>>] :
            k \in {"network", "timeout", "nonjson"}}

----------------------------------------------------------------------------
(* OzonService                                                             *)

\* _make_api_request after the response arrived: [exc, val]
_make_api_request(o) ==
    CASE o.kind = "status"  -> [exc |-> "HTTPError", status |-> o.status, val |-> Null]
      [] o.kind = "network" -> [exc |-> "HTTPError", status |-> 0, val |-> Null]
      [] o.kind = "nonjson" -> [exc |-> "HTTPError", status |-> 0, val |-> Null]
      [] o.kind = "timeout" -> [exc |-> "HTTPError", status |-> 0, val |-> Null]
      [] o.kind = "ok" ->
            [exc |-> "none", status |-> 200, val |-> Body(o.shape, Page(o.n, o.pat))]

\* len(x); ok = FALSE is TypeError
PyLen(x) ==
    CASE x.t = "list" -> [ok |-> TRUE, val |-> Len(x.v)]
      [] x.t = "dict" -> [ok |-> TRUE, val |-> Cardinality(DOMAIN x.v)]
      [] x.t = "str"  -> [ok |-> TRUE, val |-> Len(CharsOf(x.v))]
      [] OTHER        -> [ok |-> FALSE, val |-> 0]

\* a plausible slip: the unrecognized body is taken as one posting
UnknownShape_body(response) ==
    [postings |-> JList(<<JDict(response)>>), count |-> JInt(1)]

\* the batch_result of a response that has none of the accepted shapes
UnknownShape(response) == [postings |-> EmptyList, count |-> JInt(0)]

\* a plausible slip: the error key counts only when there is no result
HasError_alone(response) ==
    "error" \in DOMAIN response /\ "result" \notin DOMAIN response

\* line 137: `"error" in response`
HasError(response) == "error" \in DOMAIN response

\* lines 134-176 of _get_postings_batch: what is made of the JSON value of
\* a 200 response; every exception is caught at line 178 and gives the
\* empty batch (response.keys() of line 134 when the value is no mapping,
\* len(postings) when postings is null)
BatchResult(body) ==
    LET empty == [postings |-> EmptyList, count |-> JInt(0)]
    IN
    IF body.t # "dict" THEN empty
    ELSE
    LET response == body.v
        top ==
            IF "postings" \in DOMAIN response
            THEN LET postings == response["postings"]
                 IN  IF ~PyLen(postings).ok THEN empty
                     ELSE [postings |-> postings,
                           count |-> Get(response, "count", JInt(PyLen(postings).val))]
            ELSE UnknownShape(response)
    IN
    IF HasError(response) THEN empty
    ELSE IF "result" \in DOMAIN response
    THEN LET result == response["result"]
         IN  IF result.t = "dict"
             THEN LET postings == Get(result.v, "postings", EmptyList)
                  IN  IF ~PyLen(postings).ok THEN empty  \* len(...): TypeError
                      ELSE [postings |-> postings,
                            count |-> Get(result.v, "count",
                                          JInt(PyLen(postings).val))]
             ELSE IF result.t = "list"
             THEN [postings |-> result, count |-> JInt(Len(result.v))]
             ELSE top
    ELSE top

\* _get_postings_batch given the outcome of its request
_get_postings_batch(o) ==
    IF _make_api_request(o).exc # "none"
    THEN [postings |-> EmptyList, count |-> JInt(0)]    \* except Exception
    ELSE BatchResult(_make_api_request(o).val)

\* one pass of the loop over raw_postings in stream_postings: the record
\* to append, or Null when the stub gave None or raised (continue)
Transformed(posting) ==
    IF transform_single_posting(posting).exc = "none"
    THEN transform_single_posting(posting).val
    ELSE Null

\* embedded_batch after the loop over raw_postings
EmbeddedBatch(raw) ==
    SelectSeq([i \in 1..Len(raw) |-> Transformed(raw[i])],
              LAMBDA r : r.t = "posting")

\* a plausible slip: only an empty page ends the stream
LastPage_empty(n) == n = 0

\* `if len(raw_postings) < limit: break`
LastPage(n) == n < limit

\* a plausible slip: the raw stubs of the page are counted
ItemsAfter_raw(total, embedded_n, raw_n) == total + raw_n

\* `self.total_items += len(embedded_batch)`
ItemsAfter(total, embedded_n, raw_n) == total + embedded_n

\* a plausible slip: the offset is not moved
NextOffset_same(o) == o

\* `offset += limit`
NextOffset(o) == o + limit

\* a plausible slip: the next page is requested before the batch is yielded
InFlightAfter_prefetch(n) == n

\* the awaited request has been answered: nothing else was started
InFlightAfter(n) == n - 1

----------------------------------------------------------------------------
(* stream_postings as a state machine.  pc:                                *)
(*   "idle"     the service exists, the generator has not started          *)
(*   "paging"   at the top of the while loop                               *)
(*   "listing"  the list request is in flight                              *)
(*   "yielded"  suspended at `yield embedded_batch`                        *)
(*   "done"     the generator returned                                     *)
(*   "abandoned" the consumer closed the generator at a yield              *)

NotCalled == [called |-> FALSE]

\* how a block of code ends: it returns, raises, or goes round the loop
Returned(val) ==
    [kind |-> "return", val |-> val, exc |-> "none", status |-> 0,
     message |-> ""]
Raised(exc, status, message) ==
    [kind |-> "raise", val |-> Null, exc |-> exc, status |-> status,
     message |-> message]
Continued(wait) ==
    [kind |-> "continue", val |-> JInt(wait), exc |-> "none", status |-> 0,
     message |-> ""]
NoResult ==
    [kind |-> "none", val |-> Null, exc |-> "none", status |-> 0,
     message |-> ""]

\* the state of a component that a specification does not exercise
ReqUnused ==
    /\ rpc = "unused"
    /\ client_session = "none"
    /\ max_retries = 0
    /\ attempt = 0
    /\ httpCalls = 0
    /\ answers = <<>>
    /\ reqSleeps = <<>>
    /\ reqResult = NoResult

StreamUnused ==
    /\ pc = "idle"
    /\ session = "none"
    /\ offset = 0
    /\ batch_count = 0
    /\ total_items = 0
    /\ inflight = 0
    /\ listCalls = <<>>
    /\ outcomes = <<>>
    /\ rawSizes = <<>>
    /\ sleeps = <<>>
    /\ raw_postings = <<>>
    /\ embedded_batch = <<>>
    /\ yieldSizes = <<>>
    /\ raised = "none"

NormUnused ==
    /\ posting_data = Null
    /\ normalized = NotCalled

NoRequest == [client_id |-> Null, api_key |-> Null,
              period_from |-> [fmt |-> "bad", h |-> 0, aware |-> FALSE],
              period_to |-> [fmt |-> "bad", h |-> 0, aware |-> FALSE]]

NoResponse == [kind |-> "none", status |-> 0, success |-> FALSE,
               otpravleniya |-> <<>>, vsego_naydeno |-> 0, errors |-> <<>>,
               warnings |-> <<>>]

HandlerUnused ==
    /\ hpc = "unused"
    /\ request = NoRequest
    /\ all_postings = <<>>
    /\ total_postings = 0
    /\ reply = NoResponse

RunsUnused ==
    /\ runs = <<>>
    /\ service_of = <<>>
    /\ services = <<>>

\* ErrorHandler.__init__, and no operation called on it
NewErrorHandler ==
    [errors |-> <<>>, warnings |-> <<>>, timeout_errors |-> <<>>,
     retry_counts |-> <<>>]

NoOp == [op |-> "none", arg |-> "", max |-> 0, ret |-> "none"]

ErrUnused ==
    /\ error_handler = NewErrorHandler
    /\ retry_log = <<>>
    /\ opCount = 0
    /\ lastOp = NoOp

ListUnused ==
    /\ list_response = Null
    /\ list_batch = NotCalled

ProcUnused ==
    /\ ppc = "unused"
    /\ posting_batch = <<>>
    /\ detail_pat = <<>>
    /\ chunk_start = 0
    /\ pending = {}
    /\ started = {}
    /\ embedded_postings = <<>>
    /\ procSleeps = <<>>
    /\ procResult = NoResult


Init ==
    /\ pc = "idle"
    /\ session = "none"
    /\ offset = 0
    /\ batch_count = 0
    /\ total_items = 0
    /\ inflight = 0
    /\ listCalls = <<>>
    /\ outcomes = <<>>
    /\ rawSizes = <<>>
    /\ sleeps = <<>>
    /\ raw_postings = <<>>
    /\ embedded_batch = <<>>
    /\ yieldSizes = <<>>
    /\ raised = "none"
    /\ posting_data = Null
    /\ normalized = NotCalled
    /\ ReqUnused
    /\ ProcUnused
    /\ HandlerUnused
    /\ RunsUnused
    /\ ErrUnused
    /\ ListUnused

\* stream_postings up to the loop: counters reset, start(), offset = 0
Start ==
    /\ pc = "idle"
    /\ batch_count' = 0
    /\ total_items' = 0
    /\ session' = "open"
    /\ offset' = 0
    /\ pc' = "paging"
    /\ UNCHANGED <<inflight, listCalls, outcomes, rawSizes, sleeps,
                   raw_postings, embedded_batch, yieldSizes, raised>>
    /\ UNCHANGED besidesStream

\* the page delay, then _get_postings_batch up to the request being sent
ListRequest ==
    /\ pc = "paging"
    /\ Len(listCalls) < MaxPages
    /\ sleeps' = (IF offset > 0 THEN Append(sleeps, 500) ELSE sleeps) \o <<300>>
    /\ session' = "open"
    /\ listCalls' = Append(listCalls, offset)
    /\ inflight' = inflight + 1
    /\ pc' = "listing"
    /\ UNCHANGED <<offset, batch_count, total_items, outcomes, rawSizes,
                   raw_postings, embedded_batch, yieldSizes, raised>>
    /\ UNCHANGED besidesStream

\* the answer arrives; the loop body runs to the yield, to the next
\* iteration or to the end of the generator
ListResponse ==
    /\ pc = "listing"
    /\ \E o \in Outcomes :
       \E batch_result \in {_get_postings_batch(o)} :
       \E raw \in {Iterated(batch_result.postings)} :
       \E batch \in {EmbeddedBatch(raw)} :
        /\ inflight' = InFlightAfter(inflight)
        /\ outcomes' = Append(outcomes, o)
        /\ rawSizes' = Append(rawSizes, Len(raw))
        /\ raw_postings' = raw
        /\ IF ~Truthy(batch_result.postings)
           THEN /\ pc' = "done"
                /\ embedded_batch' = <<>>
                /\ UNCHANGED <<offset, batch_count, total_items, yieldSizes>>
           ELSE /\ embedded_batch' = batch
                /\ IF Len(batch) > 0
                   THEN /\ batch_count' = batch_count + 1
                        /\ total_items' = ItemsAfter(total_items, Len(batch), Len(raw))
                        /\ yieldSizes' = Append(yieldSizes, Len(batch))
                        /\ pc' = "yielded"
                        /\ UNCHANGED offset
                   ELSE /\ UNCHANGED <<batch_count, total_items, yieldSizes>>
                        /\ IF LastPage(Len(raw))
                           THEN pc' = "done" /\ UNCHANGED offset
                           ELSE pc' = "paging" /\ offset' = NextOffset(offset)
    /\ UNCHANGED <<session, listCalls, sleeps, raised>>
    /\ UNCHANGED besidesStream

\* lines 321-324: the generator is resumed after the yield
Resumed ==
    /\ pc = "yielded"
    /\ IF LastPage(Len(raw_postings))
       THEN pc' = "done" /\ UNCHANGED offset
       ELSE pc' = "paging" /\ offset' = NextOffset(offset)
    /\ UNCHANGED <<session, batch_count, total_items, inflight, listCalls,
                   outcomes, rawSizes, sleeps, raw_postings, embedded_batch,
                   yieldSizes, raised>>

\* the consumer asks for the next batch
Resume ==
    /\ Resumed
    /\ UNCHANGED besidesStream

\* the consumer stops after a batch: the generator is closed at the yield
Abandon ==
    /\ pc = "yielded"
    /\ pc' = "abandoned"
    /\ UNCHANGED <<session, offset, batch_count, total_items, inflight,
                   listCalls, outcomes, rawSizes, sleeps, raw_postings,
                   embedded_batch, yieldSizes, raised>>
    /\ UNCHANGED besidesStream

\* OzonService.get_errors / get_warnings: the lists of the service's
\* ErrorHandler; no statement of OzonService writes to them
get_errors(h) == h.errors

get_warnings(h) == h.warnings

\* a plausible slip: close leaves the session as it is
close_leak(s) == s

\* OzonService.close: an open session is closed and forgotten
close(s) == IF s = "open" THEN "none" ELSE s

\* OzonService.start: a session is created unless one is open
start(s) == "open"

\* OzonService.close (__aexit__ of `async with service`)
Close ==
    /\ pc \in {"done", "abandoned"}
    /\ session = "open"
    /\ session' = close(session)
    /\ UNCHANGED <<pc, offset, batch_count, total_items, inflight, listCalls,
                   outcomes, rawSizes, sleeps, raw_postings, embedded_batch,
                   yieldSizes, raised>>
    /\ UNCHANGED besidesStream

Next == Start \/ ListRequest \/ ListResponse \/ Resume \/ Abandon \/ Close

Spec == Init /\ [][Next]_vars

----------------------------------------------------------------------------
(* The normalizer on its own: one call on one raw input                    *)

InitNorm ==
    /\ posting_data \in RawInputs
    /\ normalized = NotCalled
    /\ pc = "idle"
    /\ session = "none"
    /\ offset = 0
    /\ batch_count = 0
    /\ total_items = 0
    /\ inflight = 0
    /\ listCalls = <<>>
    /\ outcomes = <<>>
    /\ rawSizes = <<>>
    /\ sleeps = <<>>
    /\ raw_postings = <<>>
    /\ embedded_batch = <<>>
    /\ yieldSizes = <<>>
    /\ raised = "none"
    /\ ReqUnused
    /\ ProcUnused
    /\ HandlerUnused
    /\ RunsUnused
    /\ ErrUnused
    /\ ListUnused

Normalize ==
    /\ ~normalized.called
    /\ normalized' = [called |-> TRUE,
                      exc |-> transform_single_posting(posting_data).exc,
                      val |-> transform_single_posting(posting_data).val]
    /\ UNCHANGED posting_data
    /\ UNCHANGED besidesNorm

NextNorm == Normalize

SpecNorm == InitNorm /\ [][NextNorm]_vars

----------------------------------------------------------------------------
(* HTTPClient.request: one call with bounded retries.  rpc:                *)
(*   "unused"  no request is under study                                   *)
(*   "idle"    request has not been called yet                             *)
(*   "loop"    at the top of `for attempt in range(max_retries)`           *)
(*   "waiting" an HTTP call is in flight                                   *)
(*   "done"    the call returned or raised                                 *)

MaxRetries == 3

\* response_text: empty, text that is not JSON, or the text of a JSON value
EmptyText == [t |-> "empty"]
GarbageText == [t |-> "garbage"]
JsonText(j) == [t |-> "json", v |-> j]

\* str(e) of the json.JSONDecodeError of GarbageText
DecodeErrorText == "Expecting value: line 1 column 1 (char 0)"

\* json.loads(response_text)
json_loads(text) ==
    IF text.t = "json"
    THEN [exc |-> "none", val |-> text.v]
    ELSE [exc |-> "JSONDecodeError", val |-> DecodeErrorText]

\* what the network can do with one HTTP call
Answered(status, text) ==
    [kind |-> "response", status |-> status, text |-> text, detail |-> ""]

ReqAnswers ==
    { Answered(200, JsonText(JDict("a" :> JInt(1)))),
      Answered(200, EmptyText),
      Answered(200, GarbageText),
      Answered(200, JsonText(JList(<<JInt(1)>>))),
      Answered(429, JsonText(JDict("message" :> JStr("slow")))),
      Answered(429, EmptyText),
      Answered(500, JsonText(JDict("message" :> JStr("boom")))),
      Answered(500, JsonText(JDict("error" :> JStr("oops")))),
      Answered(500, JsonText(EmptyDict)),
      Answered(500, EmptyText),
      Answered(500, GarbageText),
      Answered(500, JsonText(JList(<<JInt(1)>>))),
      Answered(404, JsonText(JDict("message" :> JStr("nf")))),
      [kind |-> "ClientError", status |-> 0, text |-> EmptyText,
       detail |-> "down"],
      [kind |-> "TimeoutError", status |-> 0, text |-> EmptyText,
       detail |-> ""] }

\* HTTPError(status, message)
HTTPError(status, message) == Raised("HTTPError", status, message)

\* str(e): HTTPError passes f"HTTP {status}: {message}" to Exception
StrOfExc(e) ==
    IF e.exc = "HTTPError"
    THEN "HTTP " \o ToString(e.status) \o ": " \o e.message
    ELSE e.message

\* response.get('message') or response.get('error') or 'Unknown error'
error_msg(response) ==
    PyOr(PyOr(Get(response.v, "message", Null),
              Get(response.v, "error", Null)),
         JStr("Unknown error"))

\* the wait before a retry after a 429
RateLimitWait(a) == 2 ^ (a + 1)

\* lines 81-92: the parsed response of an answer with a JSON body
StatusCheck(status, response, a) ==
    IF status >= 400
    THEN IF response.t # "dict"
         THEN Raised("AttributeError", 0,
                     "'list' object has no attribute 'get'")
         ELSE IF status = 429
              THEN Continued(RateLimitWait(a))
              ELSE HTTPError(status, PyStr(error_msg(response)))
    ELSE Returned(response)

\* lines 59-92: the body of the try statement for one answer
TryBody(ans, a) ==
    CASE ans.kind = "ClientError" -> Raised("ClientError", 0, ans.detail)
      [] ans.kind = "TimeoutError" -> Raised("TimeoutError", 0, "")
      [] ans.kind = "response" /\ ans.text.t = "empty" ->
            IF ans.status >= 400
            THEN HTTPError(ans.status, "Empty response")
            ELSE Returned(EmptyDict)
      [] ans.kind = "response" /\ ans.text.t = "garbage" ->
            IF ans.status >= 400
            THEN HTTPError(ans.status,
                           "Invalid JSON: " \o json_loads(ans.text).val)
            ELSE Raised("ValueError", 0,
                        "Response is not valid JSON: "
                            \o json_loads(ans.text).val)
      [] ans.kind = "response" /\ ans.text.t = "json" ->
            StatusCheck(ans.status, json_loads(ans.text).val, a)

\* a plausible slip: the same wait as after a 429
RetryWait_rate(a) == 2 ^ (a + 1)

\* `wait_time = 2 ** attempt` of the except clauses
RetryWait(a) == 2 ^ a

\* a plausible slip: the last attempt waits and goes round as well
MayRetry_always(a, n) == a < n

\* `if attempt < max_retries - 1` of the except clauses
MayRetry(a, n) == a < n - 1

\* a plausible slip: one attempt more than max_retries
InRange_inclusive(a, n) == a <= n

\* `for attempt in range(max_retries)`: attempt a is made
InRange(a, n) == a < n

\* the text of the error raised by an except clause on the last attempt
ExhaustedMessage(e, n) ==
    CASE e.exc = "ClientError" ->
            "Network error after " \o ToString(n) \o " retries: "
                \o StrOfExc(e)
      [] e.exc = "TimeoutError" ->
            "Timeout after " \o ToString(n) \o " retries"
      [] OTHER ->
            "Unexpected error after " \o ToString(n) \o " retries: "
                \o StrOfExc(e)

\* lines 94-116: the except clauses.  HTTPError and ValueError are neither
\* aiohttp.ClientError nor asyncio.TimeoutError, so `except Exception`
\* takes them.
Handled(out, a, n) ==
    IF out.kind = "raise"
    THEN IF MayRetry(a, n)
         THEN Continued(RetryWait(a))
         ELSE HTTPError(0, ExhaustedMessage(out, n))
    ELSE out

\* one pass of the loop body for one answer
Iteration(ans, a, n) == Handled(TryBody(ans, a), a, n)

InitReq ==
    /\ rpc = "idle"
    /\ client_session \in {"none", "open"}
    /\ max_retries \in 0..MaxRetries
    /\ attempt = 0
    /\ httpCalls = 0
    /\ answers = <<>>
    /\ reqSleeps = <<>>
    /\ reqResult = NoResult
    /\ StreamUnused
    /\ NormUnused
    /\ ProcUnused
    /\ HandlerUnused
    /\ RunsUnused
    /\ ErrUnused
    /\ ListUnused

\* lines 54-55: the session check
Request ==
    /\ rpc = "idle"
    /\ IF client_session = "none"
       THEN /\ rpc' = "done"
            /\ reqResult' = Raised("RuntimeError", 0,
                                   "use HTTPClient as a context manager")
       ELSE /\ rpc' = "loop"
            /\ UNCHANGED reqResult
    /\ attempt' = 0
    /\ UNCHANGED <<client_session, max_retries, httpCalls, answers,
                   reqSleeps>>
    /\ UNCHANGED besidesReq

\* the next attempt sends its HTTP call
Attempt ==
    /\ rpc = "loop"
    /\ InRange(attempt, max_retries)
    /\ httpCalls' = httpCalls + 1
    /\ rpc' = "waiting"
    /\ UNCHANGED <<client_session, max_retries, attempt, answers, reqSleeps,
                   reqResult>>
    /\ UNCHANGED besidesReq

\* the call is answered: the rest of the loop body, its sleep included
Answer ==
    /\ rpc = "waiting"
    /\ \E ans \in ReqAnswers :
       \E out \in {Iteration(ans, attempt, max_retries)} :
        /\ answers' = Append(answers, ans)
        /\ IF out.kind = "continue"
           THEN /\ reqSleeps' = Append(reqSleeps, out.val.v)
                /\ attempt' = attempt + 1
                /\ rpc' = "loop"
                /\ UNCHANGED reqResult
           ELSE /\ reqResult' = out
                /\ rpc' = "done"
                /\ UNCHANGED <<reqSleeps, attempt>>
    /\ UNCHANGED <<client_session, max_retries, httpCalls>>
    /\ UNCHANGED besidesReq

\* line 118: the loop ran out of attempts
Exhausted ==
    /\ rpc = "loop"
    /\ ~InRange(attempt, max_retries)
    /\ reqResult' = HTTPError(0, "Failed after " \o ToString(max_retries)
                                     \o " attempts")
    /\ rpc' = "done"
    /\ UNCHANGED <<client_session, max_retries, attempt, httpCalls, answers,
                   reqSleeps>>
    /\ UNCHANGED besidesReq

NextReq == Request \/ Attempt \/ Answer \/ Exhausted

SpecReq == InitReq /\ [][NextReq]_vars

\* every HTTP call ends (the total timeout of 30 s of line 64 turns a call
\* without answer into asyncio.TimeoutError), every sleep ends and the event
\* loop resumes the coroutine: a step that can be taken is taken
SpecReqLive == InitReq /\ [][NextReq]_vars /\ WF_vars(NextReq)

----------------------------------------------------------------------------
(* OzonService._process_batch: the detail fetches of one page.  ppc:       *)
(*   "unused"  no call is under study                                      *)
(*   "idle"    _process_batch has not been called yet                      *)
(*   "chunk"   at the top of `for i in range(0, len(posting_batch), 10)`   *)
(*   "gather"  awaiting asyncio.gather of the tasks of the chunk           *)
(*   "done"    the call returned or raised                                 *)

BATCH_SIZE == 10

\* DELAY_BETWEEN_BATCHES = 0.5, in milliseconds
DELAY_BETWEEN_BATCHES == 500

MaxBatch == 21

\* pat repeated as far as position i
Cycle(pat, i) == pat[((i - 1) % Len(pat)) + 1]

\* what upstream may answer to the detail call for stub i
DetailKinds == {"good", "bare", "noresult", "status", "network"}

DetailOutcome(kind, i) ==
    CASE kind = "good" ->
            [kind |-> "ok", status |-> 200, shape |-> "detail", n |-> i,
             pat |-> <<"good">>]
      [] kind = "bare" ->
            [kind |-> "ok", status |-> 200, shape |-> "detail", n |-> i,
             pat |-> <<"stub">>]
      [] kind = "noresult" ->
            [kind |-> "ok", status |-> 200, shape |-> "detail_empty", n |-> i,
             pat |-> <<"stub">>]
      [] kind = "status" ->
            [kind |-> "status", status |-> 500, shape |-> "", n |-> 0,
             pat |-> <<>>]
      [] kind = "network" ->
            [kind |-> "network", status |-> 0, shape |-> "", n |-> 0,
             pat |-> <<>>]

\* _get_posting_details after the answer o arrived: the result, or None
_get_posting_details(o) ==
    IF _make_api_request(o).exc # "none" THEN Null
    ELSE IF _make_api_request(o).val.t # "dict" THEN Null
    ELSE Get(_make_api_request(o).val.v, "result", Null)

\* the positions of posting_batch[i:i + BATCH_SIZE]
ChunkPositions(batch, cs) ==
    {j \in 1..Len(batch) : cs < j /\ j <= cs + BATCH_SIZE}

\* `posting.get("posting_number")` raises AttributeError on a stub that is
\* not a mapping
ChunkRaises(batch, cs) ==
    \E j \in ChunkPositions(batch, cs) : batch[j].t # "dict"

\* the stubs of the chunk that get a task: `if posting_number`
Tasks(batch, cs) ==
    {j \in ChunkPositions(batch, cs) :
        Truthy(Get(batch[j].v, "posting_number", Null))}

\* lines 252-259 for one result: the record to append, or Null
Appended(result) ==
    IF Truthy(result) THEN Transformed(result) ELSE Null

\* the result of the task of stub j, Null for a stub without a task
TaskResult(batch, cs, dpat, j) ==
    IF j \in Tasks(batch, cs)
    THEN _get_posting_details(DetailOutcome(Cycle(dpat, j), j))
    ELSE Null

\* a plausible slip: `break` instead of `continue` at a result that gives
\* no record
ChunkRecords_stop(batch, cs, dpat) ==
    SelectSeq([k \in 1..Cardinality(ChunkPositions(batch, cs)) |->
                  IF \E m \in 1..k :
                        /\ cs + m \in Tasks(batch, cs)
                        /\ Appended(TaskResult(batch, cs, dpat, cs + m)).t
                              # "posting"
                  THEN Null
                  ELSE Appended(TaskResult(batch, cs, dpat, cs + k))],
              LAMBDA r : r.t = "posting")

\* lines 241-259: what the results of the chunk add to embedded_postings
ChunkRecords(batch, cs, dpat) ==
    SelectSeq([k \in 1..Cardinality(ChunkPositions(batch, cs)) |->
                  Appended(TaskResult(batch, cs, dpat, cs + k))],
              LAMBDA r : r.t = "posting")

\* a plausible slip: a delay after every chunk
MoreChunks_always(cs, n) == cs + BATCH_SIZE <= n

\* `if i + BATCH_SIZE < len(posting_batch)`
MoreChunks(cs, n) == cs + BATCH_SIZE < n

\* the pages and the upstream answers the calls are studied on
ProcScenarios ==
    { [stubs |-> <<"stub">>, details |-> <<"good">>],
      [stubs |-> <<"stub">>,
       details |-> <<"good", "status", "good", "noresult", "network",
                     "bare", "good">>],
      [stubs |-> <<"stub", "noid">>, details |-> <<"good", "good", "status">>],
      [stubs |-> <<"noid">>, details |-> <<"good">>],
      [stubs |-> <<"good", "stub">>, details |-> <<"good", "status", "good">>],
      [stubs |-> <<"stub", "stub", "stub", "stub", "stub", "stub", "stub",
                   "stub", "stub", "stub", "stub", "null">>,
       details |-> <<"good", "status">>] }

BatchLens ==
    {0, 1, BATCH_SIZE - 1, BATCH_SIZE, BATCH_SIZE + 1, 2 * BATCH_SIZE,
     MaxBatch}

InitProc ==
    /\ ppc = "idle"
    /\ \E sc \in ProcScenarios, n \in BatchLens :
          /\ posting_batch = Page(n, sc.stubs)
          /\ detail_pat = sc.details
    /\ chunk_start = 0
    /\ pending = {}
    /\ started = {}
    /\ embedded_postings = <<>>
    /\ procSleeps = <<>>
    /\ procResult = NoResult
    /\ StreamUnused
    /\ NormUnused
    /\ ReqUnused
    /\ HandlerUnused
    /\ RunsUnused
    /\ ErrUnused
    /\ ListUnused

\* lines 214-220: the empty page returns at once
ProcessStart ==
    /\ ppc = "idle"
    /\ IF Len(posting_batch) = 0
       THEN /\ ppc' = "done"
            /\ procResult' = Returned(EmptyList)
       ELSE /\ ppc' = "chunk"
            /\ UNCHANGED procResult
    /\ embedded_postings' = <<>>
    /\ chunk_start' = 0
    /\ UNCHANGED <<posting_batch, detail_pat, pending, started, procSleeps>>
    /\ UNCHANGED besidesProc

\* a plausible slip: the records of the chunk are put in front
Appending_front(embedded, records) == records \o embedded

\* `embedded_postings.append(transformed)` for the results of one chunk
Appending(embedded, records) == embedded \o records

\* lines 264-269 and the loop header: the delay, the next chunk or the return
AfterChunk(records) ==
    /\ embedded_postings' = Appending(embedded_postings, records)
    /\ procSleeps' = IF MoreChunks(chunk_start, Len(posting_batch))
                     THEN Append(procSleeps, DELAY_BETWEEN_BATCHES)
                     ELSE procSleeps
    /\ chunk_start' = chunk_start + BATCH_SIZE
    /\ IF chunk_start + BATCH_SIZE < Len(posting_batch)
       THEN /\ ppc' = "chunk"
            /\ UNCHANGED procResult
       ELSE /\ ppc' = "done"
            /\ procResult' = Returned(JList(Appending(embedded_postings, records)))

\* lines 227-239: the tasks of the chunk are created and started together
ChunkTasks ==
    /\ ppc = "chunk"
    /\ IF ChunkRaises(posting_batch, chunk_start)
       THEN /\ ppc' = "done"
            /\ procResult' = Raised("AttributeError", 0,
                                    "object has no attribute 'get'")
            /\ UNCHANGED <<chunk_start, pending, started, embedded_postings,
                           procSleeps>>
       ELSE IF Tasks(posting_batch, chunk_start) = {}
            THEN /\ AfterChunk(<<>>)
                 /\ UNCHANGED <<pending, started>>
            ELSE /\ pending' = Tasks(posting_batch, chunk_start)
                 /\ started' = started \cup Tasks(posting_batch, chunk_start)
                 /\ ppc' = "gather"
                 /\ UNCHANGED <<chunk_start, embedded_postings, procSleeps,
                                procResult>>
    /\ UNCHANGED <<posting_batch, detail_pat>>
    /\ UNCHANGED besidesProc

\* one detail fetch completes (in any order)
DetailDone ==
    /\ ppc = "gather"
    /\ \E j \in pending : pending' = pending \ {j}
    /\ UNCHANGED <<ppc, posting_batch, detail_pat, chunk_start, started,
                   embedded_postings, procSleeps, procResult>>
    /\ UNCHANGED besidesProc

\* gather returns: the results are handled in task order
Gathered ==
    /\ ppc = "gather"
    /\ pending = {}
    /\ \E records \in {ChunkRecords(posting_batch, chunk_start, detail_pat)} :
          AfterChunk(records)
    /\ UNCHANGED <<posting_batch, detail_pat, pending, started>>
    /\ UNCHANGED besidesProc

NextProc == ProcessStart \/ ChunkTasks \/ DetailDone \/ Gathered

SpecProc == InitProc /\ [][NextProc]_vars

----------------------------------------------------------------------------
(* The handler get_fbo_postings: one invocation.  hpc:                     *)
(*   "unused"    no invocation is under study                              *)
(*   "received"  the request arrived                                       *)
(*   "created"   the request passed validation and the service exists      *)
(*   "streaming" inside `async with service`, consuming stream_postings    *)
(*   "exited"    `async with service` has been left                        *)
(*   "responded" the handler returned or raised                            *)
(* Inside the handler the generator can also end at pc = "failed": the     *)
(* task was cancelled while it awaited upstream.                           *)

HoursPerDay == 24

\* the limit of line 42 (StreamSettings.MAX_PERIOD_DAYS has the same value)
MAX_PERIOD_DAYS == 30

MaxHandlerPages == 2

\* datetime.fromisoformat(text.replace('Z', '')) of a period text: a point
\* in time counted in hours, naive or with a UTC offset, or ValueError
Iso(h) == [fmt |-> "iso", h |-> h, aware |-> FALSE]
IsoAware(h) == [fmt |-> "iso", h |-> h, aware |-> TRUE]
BadDate == [fmt |-> "bad", h |-> 0, aware |-> FALSE]

\* (period_to - period_from).days for period_from <= period_to
period_days(from, to) == (to.h - from.h) \div HoursPerDay

\* line 24: `not client_id or not api_key`
HeadersMissing_both(req) == ~Truthy(req.client_id) /\ ~Truthy(req.api_key)

HeadersMissing(req) == ~Truthy(req.client_id) \/ ~Truthy(req.api_key)

\* line 35: `period_from > period_to` of two datetimes of the same kind
PeriodReversed_skipped(from, to) == FALSE

PeriodReversed(from, to) == from.h > to.h

\* lines 23-52: 0 when the request is accepted, else the status of the
\* rejection; the TypeError of comparing a naive with an aware datetime
\* is not caught by `except ValueError` and leaves the handler
Validate(req) ==
    IF HeadersMissing(req)
    THEN [kind |-> "HTTPException", status |-> 401]
    ELSE IF req.period_from.fmt = "bad" \/ req.period_to.fmt = "bad"
    THEN [kind |-> "HTTPException", status |-> 400]
    ELSE IF req.period_from.aware # req.period_to.aware
    THEN [kind |-> "TypeError", status |-> 500]
    ELSE IF PeriodReversed(req.period_from, req.period_to)
    THEN [kind |-> "HTTPException", status |-> 400]
    ELSE IF period_days(req.period_from, req.period_to) > MAX_PERIOD_DAYS
    THEN [kind |-> "HTTPException", status |-> 400]
    ELSE [kind |-> "accepted", status |-> 0]

\* all_postings[:5]
FirstFive(postings) ==
    SubSeq(postings, 1, IF Len(postings) < 5 THEN Len(postings) ELSE 5)

\* lines 85-127: the success envelope
SuccessEnvelope(postings, total) ==
    [kind |-> "envelope", status |-> 200, success |-> TRUE,
     otpravleniya |-> FirstFive(postings), vsego_naydeno |-> total,
     errors |-> <<>>, warnings |-> <<>>]

\* lines 129-151: the error envelope
ErrorEnvelope(e) ==
    [kind |-> "envelope", status |-> 500, success |-> FALSE,
     otpravleniya |-> <<>>, vsego_naydeno |-> 0,
     errors |-> <<e>>, warnings |-> <<>>]

\* the handler ended without a response of its own
Failure(kind, status) ==
    [kind |-> kind, status |-> status, success |-> FALSE,
     otpravleniya |-> <<>>, vsego_naydeno |-> 0,
     errors |-> <<>>, warnings |-> <<>>]

\* the requests the handler is studied on
HeaderSets ==
    { [client_id |-> JStr("cid"), api_key |-> JStr("key")],
      [client_id |-> Null, api_key |-> JStr("key")],
      [client_id |-> JStr("cid"), api_key |-> JStr("")],
      [client_id |-> JStr(""), api_key |-> Null] }

Periods ==
    {[from |-> Iso(0), to |-> Iso(h)] :
        h \in {0, HoursPerDay, MAX_PERIOD_DAYS * HoursPerDay,
               MAX_PERIOD_DAYS * HoursPerDay + 1,
               (MAX_PERIOD_DAYS + 1) * HoursPerDay - 1,
               (MAX_PERIOD_DAYS + 1) * HoursPerDay}}
    \cup { [from |-> Iso(1), to |-> Iso(0)],
           [from |-> BadDate, to |-> Iso(0)],
           [from |-> Iso(0), to |-> IsoAware(HoursPerDay)] }

Requests ==
    {[client_id |-> hd.client_id, api_key |-> hd.api_key,
      period_from |-> p.from, period_to |-> p.to] :
        hd \in HeaderSets, p \in Periods}

InitHandler ==
    /\ hpc = "received"
    /\ request \in Requests
    /\ all_postings = <<>>
    /\ total_postings = 0
    /\ reply = NoResponse
    /\ StreamUnused
    /\ NormUnused
    /\ ReqUnused
    /\ ProcUnused
    /\ RunsUnused
    /\ ErrUnused
    /\ ListUnused

\* lines 21-63: validation, then the service is created
HandlerValidate ==
    /\ hpc = "received"
    /\ IF Validate(request).kind = "accepted"
       THEN /\ hpc' = "created"
            /\ UNCHANGED reply
       ELSE /\ hpc' = "responded"
            /\ reply' = Failure(Validate(request).kind,
                                Validate(request).status)
    /\ all_postings' = <<>>
    /\ total_postings' = 0
    /\ UNCHANGED request
    /\ UNCHANGED pipeVars
    /\ UNCHANGED besidesHandler

\* line 67: `async with service` calls start()
HandlerEnter ==
    /\ hpc = "created"
    /\ session' = start(session)
    /\ hpc' = "streaming"
    /\ UNCHANGED <<pc, offset, batch_count, total_items, inflight, listCalls,
                   outcomes, rawSizes, sleeps, raw_postings, embedded_batch,
                   yieldSizes, raised>>
    /\ UNCHANGED <<request, all_postings, total_postings, reply>>
    /\ UNCHANGED besidesHandler

\* line 68: the first batch is asked for
HandlerStart ==
    /\ hpc = "streaming"
    /\ Start

HandlerListRequest ==
    /\ hpc = "streaming"
    /\ Len(listCalls) < MaxHandlerPages
    /\ ListRequest

HandlerListResponse ==
    /\ hpc = "streaming"
    /\ ListResponse

\* lines 73-80: the loop body, then the next batch is asked for
HandlerBody ==
    /\ hpc = "streaming"
    /\ Resumed
    /\ all_postings' = all_postings \o embedded_batch
    /\ total_postings' = total_postings + Len(embedded_batch)
    /\ UNCHANGED <<hpc, request, reply>>
    /\ UNCHANGED besidesHandler

\* the task of the handler is cancelled while the list call is awaited:
\* CancelledError is raised at the await and leaves stream_postings
HandlerCancelled ==
    /\ hpc = "streaming"
    /\ pc = "listing"
    /\ pc' = "failed"
    /\ raised' = "CancelledError"
    /\ inflight' = 0
    /\ UNCHANGED <<session, offset, batch_count, total_items, listCalls,
                   outcomes, rawSizes, sleeps, raw_postings, embedded_batch,
                   yieldSizes>>
    /\ UNCHANGED handlerVars
    /\ UNCHANGED besidesHandler

\* the stream ended or raised: __aexit__ of `async with service`
HandlerExit ==
    /\ hpc = "streaming"
    /\ pc \in {"done", "failed"}
    /\ session' = close(session)
    /\ hpc' = "exited"
    /\ UNCHANGED <<pc, offset, batch_count, total_items, inflight, listCalls,
                   outcomes, rawSizes, sleeps, raw_postings, embedded_batch,
                   yieldSizes, raised>>
    /\ UNCHANGED <<request, all_postings, total_postings, reply>>
    /\ UNCHANGED besidesHandler

\* lines 82-151: the envelope; CancelledError is not an Exception and
\* passes `except Exception`
HandlerRespond ==
    /\ hpc = "exited"
    /\ reply' = IF raised = "none"
                THEN SuccessEnvelope(all_postings, total_postings)
                ELSE IF raised = "CancelledError"
                THEN Failure("CancelledError", 0)
                ELSE ErrorEnvelope(raised)
    /\ hpc' = "responded"
    /\ UNCHANGED <<request, all_postings, total_postings>>
    /\ UNCHANGED pipeVars
    /\ UNCHANGED besidesHandler

NextHandler ==
    \/ HandlerValidate
    \/ HandlerEnter
    \/ HandlerStart
    \/ HandlerListRequest
    \/ HandlerListResponse
    \/ HandlerBody
    \/ HandlerCancelled
    \/ HandlerExit
    \/ HandlerRespond

SpecHandler == InitHandler /\ [][NextHandler]_vars

----------------------------------------------------------------------------
(* Two invocations of the handler at once.  Each run r has the locals of   *)
(* its stream_postings in runs[r] and works on the service                 *)
(* service_of[r]; services[s] holds the attributes of service s.           *)

Runs == {1, 2}

MaxRunPages == 2

\* a plausible slip: the factory hands out one shared service
create_service_shared(r) == 1

\* OzonServiceFactory.create_service: a new OzonService for every call
create_service(r) == r

\* OzonService.__init__
NewService == [batch_count |-> 0, total_items |-> 0, session |-> "none"]

NoRun == [pc |-> "none", offset |-> 0, calls |-> 0, raw_len |-> 0,
          yieldSizes |-> <<>>]

\* the list answers of the concurrent runs: the short pages and one full page
RunOutcomes ==
    {o \in Outcomes : o.n <= MaxShort \/ (o.n = limit /\ o.pat = <<"good">>)}

InitRuns ==
    /\ runs = [r \in Runs |-> NoRun]
    /\ service_of = [r \in Runs |-> 0]
    /\ services = [s \in Runs |-> NewService]
    /\ StreamUnused
    /\ NormUnused
    /\ ReqUnused
    /\ ProcUnused
    /\ HandlerUnused
    /\ ErrUnused
    /\ ListUnused

\* router.py lines 54-60: the service of the invocation is created
RunCreate(r) ==
    /\ runs[r].pc = "none"
    /\ service_of' = [service_of EXCEPT ![r] = create_service(r)]
    /\ services' = [services EXCEPT ![create_service(r)] = NewService]
    /\ runs' = [runs EXCEPT ![r].pc = "idle"]
    /\ UNCHANGED besidesRuns

\* `async with service`, then stream_postings up to the loop
RunStart(r) ==
    /\ runs[r].pc = "idle"
    /\ services' = [services EXCEPT
                      ![service_of[r]].batch_count = 0,
                      ![service_of[r]].total_items = 0,
                      ![service_of[r]].session = start(@)]
    /\ runs' = [runs EXCEPT ![r].pc = "paging", ![r].offset = 0]
    /\ UNCHANGED service_of
    /\ UNCHANGED besidesRuns

\* the list request of the run is sent
RunListRequest(r) ==
    /\ runs[r].pc = "paging"
    /\ runs[r].calls < MaxRunPages
    /\ services' = [services EXCEPT ![service_of[r]].session = start(@)]
    /\ runs' = [runs EXCEPT ![r].pc = "listing", ![r].calls = @ + 1]
    /\ UNCHANGED service_of
    /\ UNCHANGED besidesRuns

\* what an answer to the list call does to a run: whether the page is
\* falsy, len(raw_postings) and len(embedded_batch)
PageEffect(o) ==
    [falsy |-> ~Truthy(_get_postings_batch(o).postings),
     raw_len |-> Len(Iterated(_get_postings_batch(o).postings)),
     n |-> Len(EmbeddedBatch(Iterated(_get_postings_batch(o).postings)))]

RunPageEffects == {PageEffect(o) : o \in RunOutcomes}

\* the answer arrives: the loop body up to the yield, the next iteration
\* or the end of the generator
RunListResponse(r) ==
    /\ runs[r].pc = "listing"
    /\ \E e \in RunPageEffects :
          IF e.falsy
          THEN /\ runs' = [runs EXCEPT ![r].pc = "done", ![r].raw_len = 0]
               /\ UNCHANGED services
          ELSE IF e.n > 0
          THEN /\ services' = [services EXCEPT
                                 ![service_of[r]].batch_count = @ + 1,
                                 ![service_of[r]].total_items =
                                     ItemsAfter(@, e.n, e.raw_len)]
               /\ runs' = [runs EXCEPT
                             ![r].pc = "yielded",
                             ![r].raw_len = e.raw_len,
                             ![r].yieldSizes = Append(@, e.n)]
          ELSE /\ UNCHANGED services
               /\ runs' = [runs EXCEPT
                             ![r].raw_len = e.raw_len,
                             ![r].pc = IF LastPage(e.raw_len) THEN "done"
                                       ELSE "paging",
                             ![r].offset = IF LastPage(e.raw_len) THEN @
                                           ELSE NextOffset(@)]
    /\ UNCHANGED service_of
    /\ UNCHANGED besidesRuns

\* the handler of the run asks for the next batch
RunResume(r) ==
    /\ runs[r].pc = "yielded"
    /\ runs' = [runs EXCEPT
                  ![r].pc = IF LastPage(runs[r].raw_len) THEN "done"
                            ELSE "paging",
                  ![r].offset = IF LastPage(runs[r].raw_len) THEN @
                                ELSE NextOffset(@)]
    /\ UNCHANGED <<service_of, services>>
    /\ UNCHANGED besidesRuns

\* __aexit__ of the `async with service` of the run
RunClose(r) ==
    /\ runs[r].pc = "done"
    /\ services' = [services EXCEPT ![service_of[r]].session = close(@)]
    /\ runs' = [runs EXCEPT ![r].pc = "closed"]
    /\ UNCHANGED service_of
    /\ UNCHANGED besidesRuns

NextRuns ==
    \E r \in Runs :
        \/ RunCreate(r)
        \/ RunStart(r)
        \/ RunListRequest(r)
        \/ RunListResponse(r)
        \/ RunResume(r)
        \/ RunClose(r)

SpecRuns == InitRuns /\ [][NextRuns]_vars

----------------------------------------------------------------------------
(* ErrorHandler: one instance and the operations called on it, in any      *)
(* order.  error_handler.retry_counts is a function from the keys that     *)
(* have a counter to their counters.                                       *)

MaxOps == 3

\* the error_type values the operations are called with
RetryableTypes ==
    {"NETWORK_ERROR", "TIMEOUT_ERROR", "API_RATE_LIMIT", "CONNECTION_RESET",
     "SERVER_ERROR_5XX"}

ErrorTypes == RetryableTypes \cup {"VALIDATION_ERROR", "network_error"}

\* the error_key and max_retries values should_retry is called with
ErrorKeys == {"list", "detail"}

RetryLimits == {0, 1, 2}

\* _is_retryable(error_type): membership in the set of lines 88-94
_is_retryable_no5xx(error_type) ==
    error_type \in {"NETWORK_ERROR", "TIMEOUT_ERROR", "API_RATE_LIMIT",
                    "CONNECTION_RESET"}

_is_retryable(error_type) ==
    error_type \in {"NETWORK_ERROR", "TIMEOUT_ERROR", "API_RATE_LIMIT",
                    "CONNECTION_RESET", "SERVER_ERROR_5XX"}

\* _get_timestamp(): the reading of the clock; the clock is read as the
\* number of operations called before
_get_timestamp(now) == now

\* add_error: the handler after the call
add_error(h, error_type, message, details, now) ==
    [h EXCEPT !.errors =
        Append(@, [type |-> error_type, message |-> message,
                   details |-> details, timestamp |-> _get_timestamp(now),
                   retryable |-> _is_retryable(error_type)])]

\* add_warning: the handler after the call
add_warning_front(h, warning_type, message, details, now) ==
    [h EXCEPT !.warnings =
        <<[type |-> warning_type, message |-> message, details |-> details,
           timestamp |-> _get_timestamp(now)]>> \o @]

add_warning(h, warning_type, message, details, now) ==
    [h EXCEPT !.warnings =
        Append(@, [type |-> warning_type, message |-> message,
                   details |-> details, timestamp |-> _get_timestamp(now)])]

\* add_timeout_error: the handler after the call
add_timeout_error(h, operation, duration, retry_count, now) ==
    [h EXCEPT !.timeout_errors =
        Append(@, [operation |-> operation, duration_seconds |-> duration,
                   retry_count |-> retry_count,
                   timestamp |-> _get_timestamp(now)])]

\* self.retry_counts.get(error_key, 0)
current_retries(h, error_key) ==
    IF error_key \in DOMAIN h.retry_counts THEN h.retry_counts[error_key]
    ELSE 0

\* `current_retries < max_retries`
BelowLimit_inclusive(current, n_max) == current <= n_max

BelowLimit(current, n_max) == current < n_max

\* should_retry: what it returns, and the handler after the call
should_retry(h, error_key, n_max) ==
    IF BelowLimit(current_retries(h, error_key), n_max)
    THEN [ret |-> TRUE,
          h |-> [h EXCEPT !.retry_counts =
                    [k \in DOMAIN @ \cup {error_key} |->
                        IF k = error_key
                        THEN current_retries(h, error_key) + 1
                        ELSE @[k]]]]
    ELSE [ret |-> FALSE, h |-> h]

\* reset_retry_count: self.retry_counts.pop(error_key, None)
reset_retry_count(h, error_key) ==
    [h EXCEPT !.retry_counts =
        [k \in DOMAIN @ \ {error_key} |-> @[k]]]

\* clear: the four collections are emptied
clear(h) ==
    [errors |-> <<>>, warnings |-> <<>>, timeout_errors |-> <<>>,
     retry_counts |-> <<>>]

\* has_errors, has_timeout_errors
has_errors(h) == Len(h.errors) > 0

has_timeout_errors(h) == Len(h.timeout_errors) > 0

\* get_all_errors
get_all_errors(h) ==
    [errors |-> h.errors, warnings |-> h.warnings,
     timeout_errors |-> h.timeout_errors]

Called(op, arg, n_max, ret) ==
    [op |-> op, arg |-> arg, max |-> n_max, ret |-> ret]

InitErr ==
    /\ error_handler = NewErrorHandler
    /\ retry_log = [k \in ErrorKeys |-> <<>>]
    /\ opCount = 0
    /\ lastOp = NoOp
    /\ StreamUnused
    /\ NormUnused
    /\ ReqUnused
    /\ ProcUnused
    /\ HandlerUnused
    /\ RunsUnused
    /\ ListUnused

AddError ==
    /\ opCount < MaxOps
    /\ \E error_type \in ErrorTypes :
          /\ error_handler' =
                add_error(error_handler, error_type, "m", Null, opCount)
          /\ lastOp' = Called("add_error", error_type, 0, "none")
    /\ opCount' = opCount + 1
    /\ UNCHANGED retry_log
    /\ UNCHANGED besidesErr

AddWarning ==
    /\ opCount < MaxOps
    /\ error_handler' =
          add_warning(error_handler, "EMPTY_PAGE", "m", Null, opCount)
    /\ lastOp' = Called("add_warning", "EMPTY_PAGE", 0, "none")
    /\ opCount' = opCount + 1
    /\ UNCHANGED retry_log
    /\ UNCHANGED besidesErr

AddTimeoutError ==
    /\ opCount < MaxOps
    /\ error_handler' =
          add_timeout_error(error_handler, "list", 30, 0, opCount)
    /\ lastOp' = Called("add_timeout_error", "list", 0, "none")
    /\ opCount' = opCount + 1
    /\ UNCHANGED retry_log
    /\ UNCHANGED besidesErr

ShouldRetry ==
    /\ opCount < MaxOps
    /\ \E error_key \in ErrorKeys, n_max \in RetryLimits :
          \E r \in {should_retry(error_handler, error_key, n_max)} :
             /\ error_handler' = r.h
             /\ retry_log' =
                   [retry_log EXCEPT ![error_key] =
                       Append(@, [max |-> n_max, ret |-> r.ret])]
             /\ lastOp' = Called("should_retry", error_key, n_max, r.ret)
    /\ opCount' = opCount + 1
    /\ UNCHANGED besidesErr

ResetRetryCount ==
    /\ opCount < MaxOps
    /\ \E error_key \in ErrorKeys :
          /\ error_handler' = reset_retry_count(error_handler, error_key)
          /\ retry_log' = [retry_log EXCEPT ![error_key] = <<>>]
          /\ lastOp' = Called("reset_retry_count", error_key, 0, "none")
    /\ opCount' = opCount + 1
    /\ UNCHANGED besidesErr

Clear ==
    /\ opCount < MaxOps
    /\ error_handler' = clear(error_handler)
    /\ retry_log' = [k \in ErrorKeys |-> <<>>]
    /\ lastOp' = Called("clear", "", 0, "none")
    /\ opCount' = opCount + 1
    /\ UNCHANGED besidesErr

\* the accessors: has_errors, has_timeout_errors, get_all_errors
ReadBack ==
    /\ opCount < MaxOps
    /\ \/ lastOp' = Called("has_errors", "", 0, has_errors(error_handler))
       \/ lastOp' = Called("has_timeout_errors", "", 0,
                           has_timeout_errors(error_handler))
       \/ lastOp' = Called("get_all_errors", "", 0,
                           get_all_errors(error_handler))
    /\ opCount' = opCount + 1
    /\ UNCHANGED <<error_handler, retry_log>>
    /\ UNCHANGED besidesErr

NextErr ==
    \/ AddError
    \/ AddWarning
    \/ AddTimeoutError
    \/ ShouldRetry
    \/ ResetRetryCount
    \/ Clear
    \/ ReadBack

SpecErr == InitErr /\ [][NextErr]_vars

----------------------------------------------------------------------------
(* _get_postings_batch on its own: what it makes of one 200 response       *)

\* the pages a response can hold under `result` and at the top level
ResultPages == {Page(1, <<"good">>), Page(2, <<"stub", "good">>)}

TopPage == Page(1, <<"x1">>)

\* the keys a response can have, each absent or present in several forms
ErrorParts ==
    {<<>>, "error" :> JStr("bad request"), "error" :> Null}

ResultParts ==
    {<<>>, "result" :> EmptyDict, "result" :> JDict("postings" :> Null),
     "result" :> JStr("abc"), "result" :> Null}
    \cup {"result" :> JDict("postings" :> JList(pg)
                            @@ "count" :> JInt(Len(pg))) : pg \in ResultPages}
    \cup {"result" :> JDict("postings" :> JList(pg)) : pg \in ResultPages}
    \cup {"result" :> JList(pg) : pg \in ResultPages}

TopParts ==
    {<<>>, "postings" :> JList(TopPage), "postings" :> Null}

\* the JSON values a 200 list response can carry
ListBodies ==
    {JDict(e @@ r @@ t) : e \in ErrorParts, r \in ResultParts, t \in TopParts}
    \cup {JList(TopPage), Null, JStr("error")}

InitList ==
    /\ list_response \in ListBodies
    /\ list_batch = NotCalled
    /\ StreamUnused
    /\ NormUnused
    /\ ReqUnused
    /\ ProcUnused
    /\ HandlerUnused
    /\ RunsUnused
    /\ ErrUnused

\* lines 134-180 on the response
InterpretList ==
    /\ ~list_batch.called
    /\ list_batch' = [called |-> TRUE,
                      postings |-> BatchResult(list_response).postings,
                      count |-> BatchResult(list_response).count]
    /\ UNCHANGED list_response
    /\ UNCHANGED besidesList

NextList == InterpretList

SpecList == InitList /\ [][NextList]_vars

----------------------------------------------------------------------------
(* Properties of the pagination (checked under Spec)                       *)

\* C1: the list calls go to offsets 0, limit, 2*limit, ... and no list call
\* follows the first page whose raw size is below limit; in particular
\* pages of sizes [1000, 1000, 340] take exactly 3 list calls.
C1_Pagination ==
    /\ \A i \in 1..Len(listCalls) : listCalls[i] = limit * (i - 1)
    /\ \A i \in 1..Len(rawSizes) :
          rawSizes[i] < limit =>
              /\ Len(listCalls) = i
              /\ Len(rawSizes) = i
              /\ pc \in {"yielded", "done", "abandoned"}
    /\ rawSizes = <<1000, 1000, 340>> => listCalls = <<0, 1000, 2000>>

C1_Witness ==
    /\ rawSizes = <<1000, 1000, 340>>
    /\ listCalls = <<0, 1000, 2000>>
    /\ pc = "done"

\* C2: a list call answered 429 does not end the run: the run backs off
\* and asks again, so the stream is never finished (normally or by a
\* failure) with a 429 as the last answer it got, and a backoff sleep
\* (neither the 0.3 s request delay nor the 0.5 s page delay) is on record.
C2_RateLimitRetried ==
    \A i \in 1..Len(outcomes) :
        outcomes[i].kind = "status" /\ outcomes[i].status = 429 =>
            /\ ~(i = Len(outcomes) /\ pc \in {"done", "abandoned"})
            /\ \E j \in 1..Len(sleeps) : sleeps[j] \notin {300, 500}

\* C3: a 200 list response of no accepted shape is an empty page: it yields
\* no batch, it ends the stream normally and nothing is raised.
C3_UnexpectedShape ==
    \A i \in 1..Len(outcomes) :
        outcomes[i].kind = "ok" /\ outcomes[i].shape = "unexpected" =>
            /\ rawSizes[i] = 0
            /\ Len(outcomes) = i
            /\ Len(listCalls) = i
            /\ Len(yieldSizes) < i
            /\ (i = 1 => yieldSizes = <<>> /\ batch_count = 0 /\ total_items = 0)
            /\ pc = "done"
            /\ raised = "none"

C3_Witness ==
    /\ Len(outcomes) = 1
    /\ outcomes[1].kind = "ok"
    /\ outcomes[1].shape = "unexpected"
    /\ pc = "done"
    /\ yieldSizes = <<>>

\* the list answer of the end-to-end scenario: the single stub of X-1
ListOfX1 ==
    [kind |-> "ok", status |-> 200, shape |-> "result.postings",
     n |-> 1, pat |-> <<"x1">>]

\* C4: end to end, when the list returns the single stub of X-1 the stream
\* yields exactly one batch of one record with one line item (index 1,
\* quantity 2, price 100.50, total 201.0), total_products 201.0 and the
\* label of 'delivered'.
C4_EndToEnd ==
    (outcomes = <<ListOfX1>> /\ pc = "done") =>
        /\ yieldSizes = <<1>>
        /\ Len(embedded_batch) = 1
        /\ embedded_batch[1].posting_number = "X-1"
        /\ Len(embedded_batch[1].tovary) = 1
        /\ embedded_batch[1].tovary[1].line_number = 1
        /\ embedded_batch[1].tovary[1].quantity = 2
        /\ embedded_batch[1].tovary[1].price = 100500
        /\ embedded_batch[1].tovary[1].total = 201000
        /\ embedded_batch[1].finansy.total_products = 201000
        /\ embedded_batch[1].status_ru = status_map["delivered"]

----------------------------------------------------------------------------
(* Properties of the normalizer (checked under SpecNorm)                   *)

\* the raw input after one result envelope is taken off
Unwrapped ==
    IF posting_data.t = "dict" /\ "result" \in DOMAIN posting_data.v
    THEN posting_data.v["result"]
    ELSE posting_data

\* the upstream products of the input
UpstreamProducts ==
    IF Unwrapped.t = "dict" /\ "products" \in DOMAIN Unwrapped.v
          /\ Unwrapped.v["products"].t = "list"
    THEN Unwrapped.v["products"].v
    ELSE <<>>

Emitted == normalized.called /\ normalized.exc = "none" /\ normalized.val.t = "posting"

RECURSIVE SumTotals(_)
SumTotals(items) ==
    IF Len(items) = 0 THEN 0
    ELSE items[1].total + SumTotals(Tail(items))

\* C5: the line items are exactly the products with quantity > 0 and their
\* line numbers are 1, 2, ..., n without gaps.
C5_DenseLineNumbers ==
    Emitted =>
        /\ \A i \in 1..Len(normalized.val.tovary) :
              normalized.val.tovary[i].line_number = i
        /\ Len(normalized.val.tovary) =
              Cardinality({i \in 1..Len(UpstreamProducts) :
                  /\ UpstreamProducts[i].t = "dict"
                  /\ Get(UpstreamProducts[i].v, "quantity", JInt(0)).t = "int"
                  /\ Get(UpstreamProducts[i].v, "quantity", JInt(0)).v > 0})

\* C6: total_products is the sum of the totals of the emitted line items,
\* total_payout is 0.9 of it and total_commission 0.1 of it.
C6_FinancialSummary ==
    Emitted =>
        /\ normalized.val.finansy.total_products = SumTotals(normalized.val.tovary)
        /\ 10 * normalized.val.finansy.total_payout
              = 9 * normalized.val.finansy.total_products
        /\ 10 * normalized.val.finansy.total_commission
              = normalized.val.finansy.total_products

\* C7: the financial totals of an emitted record are never negative.
C7_TotalsNonNegative ==
    Emitted =>
        /\ normalized.val.finansy.total_products >= 0
        /\ normalized.val.finansy.total_payout >= 0
        /\ normalized.val.finansy.total_commission >= 0

\* C8: a raw mapping that, after one result envelope is taken off, is a
\* mapping with none of the keys posting_number, postingNumber, posting
\* normalizes to None and nothing is raised.
C8_NoIdentityIsAbsent ==
    ( /\ normalized.called
      /\ posting_data.t = "dict"
      /\ Unwrapped.t = "dict"
      /\ DOMAIN Unwrapped.v \cap {"posting_number", "postingNumber", "posting"} = {} )
    => normalized.exc = "none" /\ normalized.val = Null

C8_Witness ==
    /\ normalized.called
    /\ posting_data.t = "dict"
    /\ "result" \in DOMAIN posting_data.v
    /\ Unwrapped.t = "dict"
    /\ DOMAIN Unwrapped.v \cap {"posting_number", "postingNumber", "posting"} = {}
    /\ {"order_id", "created_at", "status", "products"} \subseteq DOMAIN Unwrapped.v
    /\ normalized.exc = "none"
    /\ normalized.val = Null

\* C9: for any raw input the normalizer returns a record or None; no
\* exception leaves the call.
C9_NeverRaises ==
    normalized.called =>
        /\ normalized.exc = "none"
        /\ normalized.val.t \in {"null", "posting"}

----------------------------------------------------------------------------
(* Properties of HTTPClient.request (checked under SpecReq)                *)

ErrorStatus(ans) ==
    ans.kind = "response" /\ ans.status >= 400 /\ ans.status # 429

\* C11: an answer with a status >= 400 other than 429 ends the call on that
\* attempt: it is the last HTTP call, no sleep follows it, and the error
\* raised is an HTTPError with the upstream status and, for a JSON mapping
\* body, the message taken from the body.
C11_ErrorStatusFailsAtOnce ==
    \A i \in 1..Len(answers) :
        ErrorStatus(answers[i]) =>
            /\ Len(answers) = i
            /\ httpCalls = i
            /\ Len(reqSleeps) = i - 1
            /\ rpc = "done"
            /\ reqResult.kind = "raise"
            /\ reqResult.exc = "HTTPError"
            /\ reqResult.status = answers[i].status
            /\ (answers[i].text.t = "json" /\ answers[i].text.v.t = "dict" =>
                   reqResult.message = PyStr(error_msg(answers[i].text.v)))

NetworkFailure(ans) == ans.kind \in {"ClientError", "TimeoutError"}

OnlyNetworkFailures ==
    /\ client_session = "open"
    /\ rpc \in {"loop", "waiting", "done"}
    /\ \A i \in 1..Len(answers) : NetworkFailure(answers[i])

\* C12: while every attempt ends in a network error or a timeout, the
\* attempt a (from 0) is followed by a sleep of 2^a seconds and another
\* attempt as long as a < max_retries - 1; the call then ends after exactly
\* max_retries HTTP calls, without a sleep after the last one, in an
\* HTTPError of status 0 whose message states max_retries.
C12_NetworkRetries ==
    OnlyNetworkFailures =>
        /\ \A i \in 1..Len(reqSleeps) : reqSleeps[i] = 2 ^ (i - 1)
        /\ \A i \in 1..Len(answers) :
              i - 1 < max_retries - 1 => Len(reqSleeps) >= i
        /\ Len(reqSleeps) <= max_retries - 1 \/ reqSleeps = <<>>
        /\ httpCalls <= max_retries
        /\ (Len(answers) > 0 /\ Len(answers) < max_retries =>
               rpc \in {"loop", "waiting"} /\ attempt = Len(answers))
        /\ (rpc = "done" =>
               /\ httpCalls = max_retries
               /\ Len(answers) = max_retries
               /\ Len(reqSleeps) = IF max_retries = 0 THEN 0
                                   ELSE max_retries - 1
               /\ reqResult.kind = "raise"
               /\ reqResult.exc = "HTTPError"
               /\ reqResult.status = 0
               /\ reqResult.message \in
                     { "Network error after " \o ToString(max_retries)
                           \o " retries: down",
                       "Timeout after " \o ToString(max_retries)
                           \o " retries",
                       "Failed after " \o ToString(max_retries)
                           \o " attempts" })

C12_Witness ==
    /\ max_retries = 3
    /\ Len(answers) = 3
    /\ answers[1].kind = "ClientError"
    /\ answers[2].kind = "TimeoutError"
    /\ answers[3].kind = "ClientError"
    /\ httpCalls = 3
    /\ reqSleeps = <<1, 2>>
    /\ rpc = "done"
    /\ reqResult.status = 0
    /\ reqResult.message = "Network error after 3 retries: down"

\* a 429 whose body is a JSON mapping: the answer line 84 looks at
RateLimited(ans) ==
    /\ ans.kind = "response"
    /\ ans.status = 429
    /\ ans.text.t = "json"
    /\ ans.text.v.t = "dict"

\* the answers so far: one or more 429 first, then only network errors
\* and timeouts, at least one
RateThenNetwork ==
    /\ client_session = "open"
    /\ Len(answers) >= 2
    /\ RateLimited(answers[1])
    /\ NetworkFailure(answers[Len(answers)])
    /\ \A i \in 1..(Len(answers) - 1) :
          NetworkFailure(answers[i]) => NetworkFailure(answers[i + 1])
    /\ \A i \in 1..Len(answers) :
          RateLimited(answers[i]) \/ NetworkFailure(answers[i])

NetworkCount == Cardinality({i \in 1..Len(answers) : NetworkFailure(answers[i])})

\* C27 as stated: after one or more 429 answers the call still survives
\* max_retries - 1 network errors or timeouts: it fails on a network error
\* only at the max_retries-th of them.
C27_RateLimitKeepsRetrySlots ==
    (RateThenNetwork /\ rpc = "done") => NetworkCount >= max_retries

\* C27 amended: a 429 takes one of the max_retries attempts of the one
\* loop.  After 429 answers, network errors and timeouts are survived (a
\* sleep of 2^attempt and another attempt) as long as fewer than
\* max_retries HTTP calls were made, 429 answers included; the network
\* error on the max_retries-th HTTP call ends the call with the error of
\* that clause.
C27_RateLimitTakesAttempts ==
    RateThenNetwork =>
        /\ httpCalls <= max_retries
        /\ Len(answers) < max_retries =>
              /\ rpc \in {"loop", "waiting"}
              /\ attempt = Len(answers)
              /\ reqSleeps[Len(answers)] = 2 ^ (Len(answers) - 1)
        /\ Len(answers) = max_retries =>
              /\ rpc = "done"
              /\ Len(reqSleeps) = max_retries - 1
              /\ reqResult.kind = "raise"
              /\ reqResult.exc = "HTTPError"
              /\ reqResult.status = 0
              /\ reqResult.message \in
                    { "Network error after " \o ToString(max_retries)
                          \o " retries: down",
                      "Timeout after " \o ToString(max_retries)
                          \o " retries" }

C27_Witness ==
    /\ max_retries = 3
    /\ Len(answers) = 3
    /\ RateLimited(answers[1])
    /\ answers[2].kind = "ClientError"
    /\ answers[3].kind = "TimeoutError"
    /\ reqSleeps = <<2, 2>>
    /\ rpc = "done"
    /\ reqResult.message = "Timeout after 3 retries"

\* C28: an answer with status 429 to attempt a (from 0) is followed by a
\* sleep of 2^(a+1) seconds and, while attempts remain, by another attempt;
\* when all max_retries attempts are answered 429 the call ends after
\* exactly max_retries HTTP calls in the error "Failed after max_retries
\* attempts".
C28_RateLimitBackoff ==
    client_session = "open" =>
        /\ \A i \in 1..Len(answers) :
              (answers[i].kind = "response" /\ answers[i].status = 429) =>
                  /\ Len(reqSleeps) >= i
                  /\ reqSleeps[i] = 2 ^ i
                  /\ (i < max_retries /\ Len(answers) = i) =>
                        rpc \in {"loop", "waiting"}
        /\ ( /\ rpc = "done"
             /\ Len(answers) > 0
             /\ \A i \in 1..Len(answers) :
                   answers[i].kind = "response" /\ answers[i].status = 429 )
           => /\ httpCalls = max_retries
              /\ reqResult.kind = "raise"
              /\ reqResult.exc = "HTTPError"
              /\ reqResult.message = "Failed after " \o ToString(max_retries)
                                         \o " attempts"

\* C29: whatever the answers are, the call issues at most max_retries HTTP
\* calls and then ends, with the parsed body or with an HTTPError; with
\* max_retries = 0 it ends in an error without an HTTP call, and without a
\* session it ends in an error without an HTTP call.
C29_BoundedAndTerminates ==
    /\ [](/\ httpCalls <= max_retries
          /\ Len(answers) <= max_retries
          /\ rpc = "done" =>
                /\ reqResult.kind \in {"return", "raise"}
                /\ reqResult.kind = "return" =>
                      /\ answers[Len(answers)].kind = "response"
                      /\ answers[Len(answers)].status < 400
                      /\ reqResult.val =
                            IF answers[Len(answers)].text.t = "json"
                            THEN answers[Len(answers)].text.v
                            ELSE EmptyDict
                /\ (reqResult.kind = "raise" /\ client_session = "open") =>
                      reqResult.exc = "HTTPError"
                /\ max_retries = 0 =>
                      httpCalls = 0 /\ reqResult.kind = "raise"
                /\ client_session = "none" =>
                      /\ httpCalls = 0
                      /\ reqResult.kind = "raise"
                      /\ reqResult.exc = "RuntimeError")
    /\ <>(rpc = "done")

C29_Witness ==
    /\ rpc = "done"
    /\ max_retries = 3
    /\ httpCalls = 3
    /\ answers[1].kind = "response" /\ answers[1].status = 429
    /\ answers[2].kind = "TimeoutError"
    /\ answers[3].kind = "response" /\ answers[3].status = 200
    /\ reqResult.kind = "return"

NonJson(ans) == ans.kind = "response" /\ ans.text.t = "garbage"

\* C30: an answer whose body is not JSON ends the call on that attempt (it
\* is the last HTTP call and no sleep follows it): with a status below 400
\* in a parse error (ValueError), with a status of 400 or more in an
\* HTTPError that carries the status and the decode error.
C30_NonJsonNotRetried ==
    \A i \in 1..Len(answers) :
        NonJson(answers[i]) =>
            /\ Len(answers) = i
            /\ httpCalls = i
            /\ Len(reqSleeps) = i - 1
            /\ rpc = "done"
            /\ reqResult.kind = "raise"
            /\ IF answers[i].status < 400
               THEN reqResult.exc = "ValueError"
               ELSE /\ reqResult.exc = "HTTPError"
                    /\ reqResult.status = answers[i].status
                    /\ reqResult.message = "Invalid JSON: " \o DecodeErrorText

----------------------------------------------------------------------------
(* Properties of _process_batch (checked under SpecProc)                   *)

\* the chunk (from 0) of the stub at position j
ChunkOf(j) == (j - 1) \div BATCH_SIZE

\* C13: the detail fetches run in chunks of at most 10: never more than 10
\* are in flight, the fetches in flight belong to one chunk and no fetch of
\* a later chunk has started while they are, chunk k starts after exactly k
\* delays of 0.5 s, and no delay follows the last chunk.
C13_ChunkedFetches ==
    /\ Cardinality(pending) <= BATCH_SIZE
    /\ \A j \in pending : \A m \in started : ChunkOf(m) <= ChunkOf(j)
    /\ \A j \in pending : \A m \in pending : ChunkOf(m) = ChunkOf(j)
    /\ \A k \in 1..Len(procSleeps) : procSleeps[k] = 500
    /\ \A j \in pending : Len(procSleeps) = ChunkOf(j)
    /\ \A j \in started : Len(procSleeps) >= ChunkOf(j)
    /\ (ppc = "done" /\ procResult.kind = "return" /\ Len(posting_batch) > 0 =>
           Len(procSleeps) = ChunkOf(Len(posting_batch)))

C13_Witness ==
    /\ ppc = "gather"
    /\ Len(posting_batch) = 2 * BATCH_SIZE
    /\ started = 1..(2 * BATCH_SIZE)
    /\ pending = (BATCH_SIZE + 1)..(2 * BATCH_SIZE)
    /\ procSleeps = <<500>>

\* the stubs whose detail fetch and normalization succeed
Fetched ==
    {j \in 1..Len(posting_batch) :
        /\ posting_batch[j].t = "dict"
        /\ Truthy(Get(posting_batch[j].v, "posting_number", Null))
        /\ Cycle(detail_pat, j) = "good"}

FetchFails(j) ==
    /\ posting_batch[j].t = "dict"
    /\ Truthy(Get(posting_batch[j].v, "posting_number", Null))
    /\ Cycle(detail_pat, j) \in {"status", "network", "noresult"}

\* C14: on a page of stub mappings, failed detail fetches do not abort the
\* page: _process_batch raises nothing and returns one record for every
\* stub whose fetch and normalization succeeded, and no other record.
C14_FailedFetchIsolated ==
    ( /\ ppc = "done"
      /\ \A j \in 1..Len(posting_batch) : posting_batch[j].t = "dict" )
    => /\ procResult.kind = "return"
       /\ Len(procResult.val.v) = Cardinality(Fetched)
       /\ \A j \in Fetched :
             \E k \in 1..Len(procResult.val.v) :
                procResult.val.v[k].posting_number
                   = PyStr(posting_batch[j].v["posting_number"])

C14_Witness ==
    /\ ppc = "done"
    /\ Len(posting_batch) = 2 * BATCH_SIZE
    /\ \A j \in 1..Len(posting_batch) : posting_batch[j].t = "dict"
    /\ \E j \in 1..BATCH_SIZE : FetchFails(j)
    /\ \E j \in (BATCH_SIZE + 1)..(2 * BATCH_SIZE) : FetchFails(j)
    /\ procResult.kind = "return"
    /\ Len(procResult.val.v) = Cardinality(Fetched)
    /\ \E j \in Fetched : j <= BATCH_SIZE
    /\ \E j \in Fetched : j > BATCH_SIZE

----------------------------------------------------------------------------
(* Properties of the run (checked under Spec)                              *)

ListCallFailed(o) == o.kind \in {"status", "network", "timeout"}

\* C15: a list call that fails (an error status, a network error or a
\* timeout) ends the stream abnormally: once its outcome is handled an
\* exception has left stream_postings and the stream is not in a state of
\* normal progress or normal completion.
C15_ListFailurePropagates ==
    \A i \in 1..Len(outcomes) :
        ListCallFailed(outcomes[i]) =>
            /\ raised # "none"
            /\ pc \notin {"paging", "listing", "yielded", "done"}

\* C17: whenever stream_postings is suspended at a yield, and after the
\* consumer has stopped pulling, no upstream request of the run is in
\* flight; and once the consumer has stopped, the run issues no further
\* call.
C17_QuiescentAtYield ==
    /\ [](pc \in {"yielded", "abandoned"} =>
            inflight = 0 /\ Len(outcomes) = Len(listCalls))
    /\ [][pc = "abandoned" =>
            listCalls' = listCalls /\ inflight' = inflight]_vars

C17_Witness ==
    /\ pc = "abandoned"
    /\ Len(yieldSizes) = 2
    /\ Len(listCalls) = 2
    /\ Len(outcomes) = 2
    /\ inflight = 0
    /\ session = "none"

\* C26: when the stream yields the batch of a page, the detail fetches of
\* the page have run: _process_batch was called on the page and returned,
\* the detail call of every stub of the page was started and none is still
\* pending.
C26_RecordsFromDetails ==
    (pc = "yielded" /\ Len(raw_postings) > 0) =>
        /\ ppc = "done"
        /\ pending = {}
        /\ \A i \in 1..Len(raw_postings) : i \in started

\* C31: a list call answered with a 5xx status is retried: the run does
\* not end on it, and the next list call asks for the same offset again;
\* a list call answered with a 4xx status other than 429 fails.
C31_ServerErrorRetried ==
    \A i \in 1..Len(outcomes) :
        /\ (outcomes[i].kind = "status" /\ outcomes[i].status >= 500) =>
               /\ ~(Len(listCalls) = i /\ pc \in {"done", "abandoned"})
               /\ Len(listCalls) > i => listCalls[i + 1] = listCalls[i]
        /\ ( /\ outcomes[i].kind = "status"
             /\ outcomes[i].status >= 400
             /\ outcomes[i].status < 500
             /\ outcomes[i].status # 429 ) =>
               /\ _make_api_request(outcomes[i]).exc = "HTTPError"
               /\ _make_api_request(outcomes[i]).status = outcomes[i].status

\* C33: a full page never ends the stream, also when nothing of it could
\* be normalized: the answer to a list call that holds 1000 stubs and
\* gives no batch leaves the generator at the top of its loop with the
\* offset moved by 1000, the list call after a full page asks for the
\* offset 1000 further, the generator ends only after a page of fewer than
\* 1000 stubs, and no yielded batch is empty.
C33_EmptyBatchContinues ==
    /\ [](/\ \A j \in 1..Len(yieldSizes) : yieldSizes[j] > 0
          /\ \A i \in 1..Len(rawSizes) :
                (rawSizes[i] = limit /\ Len(listCalls) > i) =>
                    listCalls[i + 1] = listCalls[i] + limit
          /\ (pc = "done" /\ Len(rawSizes) > 0) =>
                rawSizes[Len(rawSizes)] < limit)
    /\ [][( /\ pc = "listing"
            /\ Len(rawSizes') = Len(rawSizes) + 1
            /\ rawSizes'[Len(rawSizes')] = limit
            /\ yieldSizes' = yieldSizes )
          => /\ pc' = "paging"
             /\ offset' = offset + limit
             /\ batch_count' = batch_count
             /\ total_items' = total_items]_vars

C33_Witness ==
    /\ rawSizes = <<limit, limit>>
    /\ yieldSizes = <<limit>>
    /\ outcomes[1].pat = <<"stub">>
    /\ outcomes[2].pat = <<"good">>
    /\ listCalls = <<0, limit>>
    /\ pc = "yielded"

----------------------------------------------------------------------------
(* Properties of the normalizer's sections, timestamps, quantities and     *)
(* identity (checked under SpecNorm)                                       *)

\* the upstream keys the three sub-section builders read a mapping from
SectionKeys == {"analytics_data", "customer", "delivery_method"}

\* the upstream section k is present but is not a mapping
Malformed(k) ==
    /\ Unwrapped.t = "dict"
    /\ k \in DOMAIN Unwrapped.v
    /\ Unwrapped.v[k].t # "dict"

\* what the normalizer makes of the input once the key k is taken out of it
WithoutKey(k) == transform_single_posting(JDict(Without(Unwrapped.v, k))).val

\* C34: when an upstream section (analytics, delivery, customer) is present
\* but null or not a mapping, and the record is otherwise one the normalizer
\* emits, the record is still emitted, with that sub-section as if the
\* section were absent and every other section as it would be without it.
C34_SectionsIsolated ==
    \A k \in SectionKeys :
        ( /\ normalized.called
          /\ Malformed(k)
          /\ WithoutKey(k).t = "posting" )
        => /\ Emitted
           /\ normalized.val = WithoutKey(k)

\* the upstream value of a timestamp key of the input (None when missing)
RawTime(k) == Get(Unwrapped.v, k, Null)

\* what the normalizer makes of the input once it is given a creation time
WithCreated ==
    transform_single_posting(
        JDict(("created_at" :> JStr("2024-01-01T00:00:00Z")) @@ Unwrapped.v)).val

\* C35: a raw record that the normalizer emits when it carries a creation
\* time is emitted as well when its creation time or its processing-start
\* time is missing, null, empty or unparseable; nothing is raised, and a
\* missing timestamp is absent in the emitted record.
C35_TimestampsOptional ==
    ( /\ normalized.called
      /\ Unwrapped.t = "dict"
      /\ WithCreated.t = "posting" )
    => /\ normalized.exc = "none"
       /\ Emitted
       /\ ~Truthy(RawTime("created_at")) => normalized.val.created_at = Null
       /\ ~Truthy(RawTime("in_process_at")) => normalized.val.in_process_at = Null

\* the quantity of an upstream product under the lenient parsing of price
LenientQuantity(product) ==
    IF product.t # "dict" THEN 0
    ELSE _safe_float(Get(product.v, "quantity", JInt(0))) \div Milli

\* the product with its quantity replaced by the leniently parsed number
Coerced(product) ==
    IF product.t # "dict" THEN product
    ELSE JDict(("quantity" :> JInt(LenientQuantity(product))) @@ product.v)

\* the upstream products with every quantity coerced
CoercedProducts == [i \in 1..Len(UpstreamProducts) |-> Coerced(UpstreamProducts[i])]

RECURSIVE QuantitiesOf(_)
\* the quantities of a sequence of line items, in order
QuantitiesOf(items) ==
    IF Len(items) = 0 THEN <<>>
    ELSE <<items[1].quantity>> \o QuantitiesOf(Tail(items))

\* the input carries a product whose quantity arrives as text
TextQuantity ==
    \E i \in 1..Len(UpstreamProducts) :
        /\ UpstreamProducts[i].t = "dict"
        /\ Get(UpstreamProducts[i].v, "quantity", JInt(0)).t = "str"

\* C36: quantity is parsed like price: the line items of an emitted record
\* are those of the same products with every quantity coerced (a numeric
\* string counts as its number, garbage as 0 and is excluded), the other
\* products are unaffected, and total_products is the sum of the line totals.
C36_LenientQuantity ==
    (Emitted /\ TextQuantity) =>
        /\ QuantitiesOf(normalized.val.tovary) =
              QuantitiesOf(ProductItemsUpTo(CoercedProducts, Len(CoercedProducts),
                                            "X-1"))
        /\ normalized.val.finansy.total_products = SumTotals(normalized.val.tovary)

\* the accepted identity keys, in the order the normalizer tries them
IdentityKeys == <<"posting_number", "postingNumber", "posting">>

\* a real record number: a non-empty text or a number
RealNumber(x) == (x.t = "str" /\ x.v # "") \/ x.t = "int"

\* the positions in IdentityKeys under which the input has a real number
RealIdentities ==
    {i \in 1..Len(IdentityKeys) :
        /\ IdentityKeys[i] \in DOMAIN Unwrapped.v
        /\ RealNumber(Unwrapped.v[IdentityKeys[i]])}

\* the first real record number of the input
FirstReal ==
    Unwrapped.v[IdentityKeys[CHOOSE i \in RealIdentities :
                                \A j \in RealIdentities : i <= j]]

\* what the normalizer makes of the input when that number is its
\* posting_number and the other identity keys are gone
Identified ==
    transform_single_posting(
        JDict(("posting_number" :> FirstReal)
              @@ Without(Without(Unwrapped.v, "postingNumber"), "posting"))).val

\* C37: a raw record whose identity is empty or null under every accepted
\* key is dropped; a record with a real number under some accepted key
\* (for instance an empty posting_number and a valid postingNumber) is
\* emitted under the first such number whenever it is emitted under
\* posting_number; so every emitted record number is real and upstream's.
C37_RealRecordNumber ==
    (normalized.called /\ Unwrapped.t = "dict") =>
        /\ RealIdentities = {} => ~Emitted
        /\ (RealIdentities # {} /\ Identified.t = "posting") =>
              /\ Emitted
              /\ normalized.val.posting_number = PyStr(FirstReal)

----------------------------------------------------------------------------
(* Properties of the run's error accumulator and counters (checked under   *)
(* Spec)                                                                   *)

\* a list call that failed or whose answer had an unexpected shape
NonFatalFailure(o) ==
    \/ o.kind \in {"status", "network", "timeout", "nonjson"}
    \/ o.kind = "ok" /\ o.shape \in {"unexpected", "error"}

\* C38: when a list call of the run failed or was answered in an
\* unexpected shape, then after the run get_errors() or get_warnings() is
\* non-empty.
C38_FailuresCollected ==
    ( /\ pc = "done"
      /\ \E i \in 1..Len(outcomes) : NonFatalFailure(outcomes[i]) )
    => \/ get_errors(error_handler) # <<>>
       \/ get_warnings(error_handler) # <<>>

RECURSIVE SumSizes(_)
\* the sum of a sequence of batch sizes
SumSizes(sizes) ==
    IF Len(sizes) = 0 THEN 0 ELSE sizes[1] + SumSizes(Tail(sizes))

\* C39: at every yield point and at the end of a run batch_count is the
\* number of batches yielded so far and total_items the sum of their
\* sizes; the start of a run sets both to 0 and no step of a run makes
\* either of them smaller.
C39_CountersMatchYields ==
    /\ [](pc \in {"yielded", "done", "abandoned"} =>
            /\ batch_count = Len(yieldSizes)
            /\ total_items = SumSizes(yieldSizes))
    /\ [][(pc = "idle" /\ pc' # "idle") =>
            (batch_count' = 0 /\ total_items' = 0)]_vars
    /\ [][pc # "idle" =>
            (batch_count' >= batch_count /\ total_items' >= total_items)]_vars

C39_Witness ==
    /\ pc = "done"
    /\ rawSizes = <<limit, 2>>
    /\ yieldSizes = <<limit, 1>>
    /\ batch_count = 2
    /\ total_items = limit + 1

----------------------------------------------------------------------------
(* Properties of _get_postings_batch (checked under SpecList)              *)

\* the stubs a value stands for: a sequence gives its elements, anything
\* else gives none
StubsOf(x) == IF x.t = "list" THEN x.v ELSE <<>>

HasKey(body, k) == body.t = "dict" /\ k \in DOMAIN body.v

\* the stubs the response yields by the priority error, result as a
\* mapping, result as a sequence, top-level postings, nothing
ByPriority(body) ==
    IF HasKey(body, "error") THEN <<>>
    ELSE IF HasKey(body, "result") /\ body.v["result"].t = "dict"
    THEN IF HasKey(body.v["result"], "postings")
         THEN StubsOf(body.v["result"].v["postings"])
         ELSE <<>>
    ELSE IF HasKey(body, "result") /\ body.v["result"].t = "list"
    THEN body.v["result"].v
    ELSE IF HasKey(body, "postings")
    THEN StubsOf(body.v["postings"])
    ELSE <<>>

\* C32: the list response is read in a fixed order: an error key gives no
\* stubs even beside result or postings; else result as a mapping gives
\* result.postings; else result as a sequence gives that sequence; else a
\* top-level postings gives it; any other shape gives no stubs; and the
\* call returns a batch in every case.
C32_PriorityOrder ==
    list_batch.called =>
        /\ StubsOf(list_batch.postings) = ByPriority(list_response)
        /\ list_batch.postings.t = "list"

C32_Witness ==
    /\ list_batch.called
    /\ HasKey(list_response, "error")
    /\ HasKey(list_response, "result")
    /\ HasKey(list_response, "postings")
    /\ list_response.v["result"].t = "dict"
    /\ HasKey(list_response.v["result"], "postings")
    /\ Len(StubsOf(list_response.v["result"].v["postings"])) = 2
    /\ list_batch.postings = EmptyList

\* the positions of the page whose stub carries the record number pn
PositionsOf(batch, pn) ==
    {j \in 1..Len(batch) :
        /\ batch[j].t = "dict"
        /\ Get(batch[j].v, "posting_number", Null) = JStr(pn)}

\* the position of the stub of the a-th record
StubOf(records, batch, a) ==
    CHOOSE j \in PositionsOf(batch, records[a].posting_number) : TRUE

\* every record stands for exactly one stub of the page, and the records
\* follow one another as their stubs do: nothing reordered or duplicated
OrderPreserved(records, batch) ==
    /\ \A a \in 1..Len(records) :
          Cardinality(PositionsOf(batch, records[a].posting_number)) = 1
    /\ \A a \in 1..Len(records), b \in 1..Len(records) :
          a < b => StubOf(records, batch, a) < StubOf(records, batch, b)

\* C40: the offsets of the list calls increase from page to page; the
\* loop of stream_postings over a page and _process_batch, under every
\* order in which the concurrent detail fetches complete, give records in
\* the order of their stubs, each record for exactly one stub, and
\* _process_batch returns exactly those records.
C40_OrderPreserved ==
    /\ \A k \in 0..MaxPages : NextOffset(k * limit) > k * limit
    /\ ppc = "idle" => OrderPreserved(EmbeddedBatch(posting_batch), posting_batch)
    /\ ppc \in {"chunk", "gather", "done"} =>
          OrderPreserved(embedded_postings, posting_batch)
    /\ (ppc = "done" /\ procResult.kind = "return") =>
          procResult.val = JList(embedded_postings)

C40_Witness ==
    /\ ppc = "done"
    /\ Len(posting_batch) = 2 * BATCH_SIZE
    /\ Len(EmbeddedBatch(posting_batch)) = BATCH_SIZE
    /\ Len(embedded_postings) = 13
    /\ embedded_postings[2].posting_number = "P-3"
    /\ embedded_postings[13].posting_number = "P-19"
    /\ procResult.val = JList(embedded_postings)

----------------------------------------------------------------------------
(* Properties of the handler (checked under SpecHandler)                   *)

C19_EnvelopeHasEveryRecord ==
    hpc = "responded" /\ reply.kind \in {"envelope", "CancelledError"} =>
        /\ (raised = "none" =>
               /\ reply.status = 200
               /\ reply.success
               /\ reply.otpravleniya = all_postings
               /\ Len(reply.otpravleniya) = total_items
               /\ reply.errors = <<>>
               /\ reply.warnings = <<>>)
        /\ (raised \notin {"none", "CancelledError"} =>
               reply.status = 500 /\ ~reply.success)

\* the request has both headers and a period of two naive ISO times
WellFormed(req) ==
    /\ Truthy(req.client_id)
    /\ Truthy(req.api_key)
    /\ req.period_from.fmt = "iso"
    /\ req.period_to.fmt = "iso"
    /\ ~req.period_from.aware
    /\ ~req.period_to.aware

\* C20: a well-formed request whose period is longer than 30 days, be it
\* by less than a day, is answered 400 and no service is started and no
\* upstream call made for it.
C20_LongPeriodRejected ==
    ( /\ hpc # "received"
      /\ WellFormed(request)
      /\ request.period_to.h - request.period_from.h
            > MAX_PERIOD_DAYS * HoursPerDay )
    => /\ hpc = "responded"
       /\ reply.status = 400
       /\ session = "none"
       /\ listCalls = <<>>

C22_MissingHeadersRejected ==
    ( /\ hpc # "received"
      /\ \/ request.client_id \in {Null, JStr("")}
         \/ request.api_key \in {Null, JStr("")} )
    => /\ hpc = "responded"
       /\ reply.kind = "HTTPException"
       /\ reply.status = 401
       /\ session = "none"
       /\ pc = "idle"
       /\ listCalls = <<>>

C22_Witness ==
    /\ hpc = "responded"
    /\ request.client_id = JStr("cid")
    /\ request.api_key = JStr("")
    /\ request.period_from = BadDate
    /\ reply.status = 401

----------------------------------------------------------------------------
(* Properties of concurrent runs (checked under SpecRuns)                  *)

Running(r) == runs[r].pc \in {"paging", "listing", "yielded", "done", "closed"}

\* C18: two runs at once share no mutable state: they work on different
\* services, and under every interleaving the batch_count and total_items
\* of the service of a run are the number and the total size of the
\* batches that run itself has yielded.
C18_RunsIsolated ==
    /\ \A r1 \in Runs, r2 \in Runs :
          r1 # r2 /\ runs[r1].pc # "none" /\ runs[r2].pc # "none" =>
              service_of[r1] # service_of[r2]
    /\ \A r \in Runs :
          Running(r) =>
              /\ services[service_of[r]].batch_count = Len(runs[r].yieldSizes)
              /\ services[service_of[r]].total_items
                    = SumSizes(runs[r].yieldSizes)
              /\ (runs[r].pc \in {"paging", "listing", "yielded", "done"} =>
                     services[service_of[r]].session = "open")

C18_Witness ==
    /\ runs[1].pc = "yielded"
    /\ runs[1].yieldSizes = <<1000, 2>>
    /\ runs[2].pc = "yielded"
    /\ runs[2].yieldSizes = <<1>>
    /\ services[service_of[1]].batch_count = 2
    /\ services[service_of[1]].total_items = 1002
    /\ services[service_of[2]].batch_count = 1
    /\ services[service_of[2]].total_items = 1

----------------------------------------------------------------------------
(* Properties of ErrorHandler (checked under SpecErr)                      *)

\* the calls of the log were all made with the same max_retries
SameLimit(log) == \A i, j \in 1..Len(log) : log[i].max = log[j].max

\* C23: over the should_retry calls made for one key with one max since
\* the key was last reset or cleared, the call returns true for the first
\* max calls and false for every later one, and the stored counter of the
\* key is the number of calls that returned true, so never above max; a
\* call that returns false leaves every counter as it was, a call that
\* returns true adds one to the counter of its key, and no call changes
\* the counter of another key.
C23_RetryCounter ==
    /\ [](\A k \in ErrorKeys :
            (opCount > 0 /\ Len(retry_log[k]) > 0 /\ SameLimit(retry_log[k]))
            => /\ \A i \in 1..Len(retry_log[k]) :
                     retry_log[k][i].ret = (i <= retry_log[k][1].max)
               /\ k \in DOMAIN error_handler.retry_counts =>
                     /\ error_handler.retry_counts[k] <= retry_log[k][1].max
                     /\ error_handler.retry_counts[k] =
                           Cardinality({i \in 1..Len(retry_log[k]) :
                                           retry_log[k][i].ret})
               /\ k \notin DOMAIN error_handler.retry_counts =>
                     \A i \in 1..Len(retry_log[k]) : ~retry_log[k][i].ret)
    /\ [][lastOp'.op = "should_retry" =>
            /\ \A k \in ErrorKeys \ {lastOp'.arg} :
                  /\ (k \in DOMAIN error_handler'.retry_counts)
                        = (k \in DOMAIN error_handler.retry_counts)
                  /\ current_retries(error_handler', k)
                        = current_retries(error_handler, k)
            /\ lastOp'.ret = FALSE =>
                  error_handler'.retry_counts = error_handler.retry_counts
            /\ lastOp'.ret = TRUE =>
                  current_retries(error_handler', lastOp'.arg)
                     = current_retries(error_handler, lastOp'.arg) + 1]_vars

C23_Witness ==
    /\ opCount = 3
    /\ retry_log["list"] = <<[max |-> 1, ret |-> TRUE],
                             [max |-> 1, ret |-> FALSE]>>
    /\ retry_log["detail"] = <<[max |-> 1, ret |-> TRUE]>>
    /\ error_handler.retry_counts["list"] = 1

\* the kinds the accumulator is to treat as retryable
RetryableKinds ==
    {"NETWORK_ERROR", "TIMEOUT_ERROR", "API_RATE_LIMIT", "CONNECTION_RESET",
     "SERVER_ERROR_5XX"}

\* C24: every entry of errors has retryable true exactly when its kind is
\* NETWORK_ERROR, TIMEOUT_ERROR, API_RATE_LIMIT, CONNECTION_RESET or
\* SERVER_ERROR_5XX.
C24_RetryableByKind ==
    opCount > 0 =>
        \A i \in 1..Len(error_handler.errors) :
            error_handler.errors[i].retryable
                = (error_handler.errors[i].type \in RetryableKinds)

C24_Witness ==
    /\ Len(error_handler.errors) = 3
    /\ error_handler.errors[1].type = "SERVER_ERROR_5XX"
    /\ error_handler.errors[1].retryable
    /\ error_handler.errors[2].type = "network_error"
    /\ ~error_handler.errors[2].retryable
    /\ error_handler.errors[3].type = "VALIDATION_ERROR"
    /\ ~error_handler.errors[3].retryable

\* s is an initial part of t
IsPrefix(s, t) == Len(s) <= Len(t) /\ SubSeq(t, 1, Len(s)) = s

\* the step keeps what errors and warnings hold and, when it is an add,
\* puts exactly one entry of the given kind at the end of its sequence
GrowsOnly ==
    /\ IsPrefix(error_handler.errors, error_handler'.errors)
    /\ IsPrefix(error_handler.warnings, error_handler'.warnings)
    /\ lastOp'.op = "add_error" =>
          /\ Len(error_handler'.errors) = Len(error_handler.errors) + 1
          /\ error_handler'.errors[Len(error_handler'.errors)].type
                = lastOp'.arg
          /\ error_handler'.warnings = error_handler.warnings
    /\ lastOp'.op = "add_warning" =>
          /\ Len(error_handler'.warnings) = Len(error_handler.warnings) + 1
          /\ error_handler'.warnings[Len(error_handler'.warnings)].type
                = lastOp'.arg
          /\ error_handler'.errors = error_handler.errors
    /\ lastOp'.op \notin {"add_error", "add_warning", "clear"} =>
          /\ error_handler'.errors = error_handler.errors
          /\ error_handler'.warnings = error_handler.warnings

\* C25 as stated: under any sequence of the operations of the accumulator
\* errors and warnings only grow, each add appends exactly one entry at
\* the end and recorded entries are never removed or altered.
C25_AppendOnly == [][GrowsOnly]_vars

\* C25 amended: the same under any sequence of operations other than
\* clear, which empties errors, warnings, timeout_errors and retry_counts.
C25_AppendOnlyUntilClear == [][lastOp'.op # "clear" => GrowsOnly]_vars

C25_Witness ==
    /\ opCount = 3
    /\ Len(error_handler.errors) = 1
    /\ Len(error_handler.warnings) = 2
    /\ error_handler.warnings[1].timestamp = 0
    /\ error_handler.errors[1].timestamp = 1
    /\ error_handler.warnings[2].timestamp = 2

====
